---- MODULE Spec2Model ----
(***************************************************************************)
(* Model of the unmute frontend session manager: the chat history module   *)
(* (chatHistory.ts: merge view, persistence, memory snapshots), the tool   *)
(* dispatcher (tools.ts) and the parts of the Unmute component (Unmute.tsx)*)
(* that drive them.                                                        *)
(*                                                                         *)
(* Strings are sequences of one-token characters; null is the marker Null. *)
(* A ChatMessage is a record with the fields the object has (role,         *)
(* content, and tool_calls / tool_call_id only when present).              *)
(***************************************************************************)
EXTENDS Integers, Sequences, FiniteSets, TLC

\* ------------------------------------------------------------------------
\* Bounds of the model
\* ------------------------------------------------------------------------

\* Longest history handed to compressChatHistory by SpecCompress.
MaxLen == 3

\* Longest history handed to saveChatHistory by SpecPersist.
MaxSaved == 2

\* Inbound deltas of SpecStore arrive while rawChatHistory holds fewer than
\* this many characters.
MaxContent == 2

\* Last instant of the clock of SpecStore.
MaxTime == 2

\* ------------------------------------------------------------------------
\* chatHistory.ts: data model
\* ------------------------------------------------------------------------

\* content: string | null. A string is a sequence of characters, so the
\* null value is a sequence no string equals.
Null == <<"<null>">>

ChatRole == {"user", "assistant", "system", "tool"}

\* Characters String.prototype.trimStart removes (the ones the model uses).
WhiteSpace == {" ", "\n"}

\* JavaScript truthiness of a content value: null and "" are falsy.
Truthy(content) == content # Null /\ content # <<>>

RECURSIVE trimStart(_)
trimStart(s) ==
    IF s = <<>> THEN <<>>
    ELSE IF Head(s) \in WhiteSpace THEN trimStart(Tail(s))
    ELSE s

\* The loop of compressChatHistory from message i on. It returns the merged
\* view and the input array as the loop leaves it: the else branch assigns
\* message.content on the caller's own object before copying it.
RECURSIVE CompressLoop(_, _, _, _)
CompressLoop(chatHistory, separator, i, compressed) ==
    IF i > Len(chatHistory)
    THEN [compressed |-> compressed, chatHistory |-> chatHistory]
    ELSE LET message == chatHistory[i]
             n == Len(compressed)
         IN IF /\ n > 0
               /\ compressed[n].role = message.role
               /\ Truthy(message.content)
               /\ Truthy(compressed[n].content)
            THEN CompressLoop(chatHistory, separator, i + 1,
                     [compressed EXCEPT
                         ![n].content = @ \o separator \o message.content])
            ELSE LET trimmed ==
                         IF message.content # Null
                         THEN [message EXCEPT !.content = trimStart(@)]
                         ELSE message
                 IN CompressLoop([chatHistory EXCEPT ![i] = trimmed],
                                 separator, i + 1, Append(compressed, trimmed))

\* The first version of compressChatHistory kept in the repository: it merges
\* on role alone and trims nothing.
RECURSIVE CompressLoopV1(_, _, _, _)
CompressLoopV1(chatHistory, separator, i, compressed) ==
    IF i > Len(chatHistory) THEN compressed
    ELSE LET message == chatHistory[i]
             n == Len(compressed)
         IN IF n > 0 /\ compressed[n].role = message.role
            THEN CompressLoopV1(chatHistory, separator, i + 1,
                     [compressed EXCEPT
                         ![n].content = @ \o separator \o message.content])
            ELSE CompressLoopV1(chatHistory, separator, i + 1,
                                Append(compressed, message))

compressChatHistoryV1(chatHistory, separator) ==
    CompressLoopV1(chatHistory, separator, 1, <<>>)

\* compressChatHistory(chatHistory, separator): the returned array.
compressChatHistory(chatHistory, separator) ==
    CompressLoop(chatHistory, separator, 1, <<>>).compressed

\* The caller's array after compressChatHistory has run on it.
compressedInput(chatHistory, separator) ==
    CompressLoop(chatHistory, separator, 1, <<>>).chatHistory

\* ------------------------------------------------------------------------
\* JSON text. A text is a sequence of tokens: the punctuation "{" "}" "["
\* "]" ",", a key with its colon ("role:"), the literals null, true, false,
\* a number, and the characters of a string between two quote tokens, with
\* the quote, the backslash and the newline escaped by a backslash token.
\* ------------------------------------------------------------------------

Quote == "\""
Backslash == "\\"

EscapeChar(c) ==
    IF c = Quote \/ c = Backslash THEN <<Backslash, c>>
    ELSE IF c = "\n" THEN <<Backslash, "n">>
    ELSE <<c>>

RECURSIVE Escape(_)
Escape(s) == IF s = <<>> THEN <<>> ELSE EscapeChar(Head(s)) \o Escape(Tail(s))

\* JSON.stringify of a string.
StringifyString(s) == <<Quote>> \o Escape(s) \o <<Quote>>

\* JSON.stringify of a string | null.
StringifyNullable(s) == IF s = Null THEN <<"null">> ELSE StringifyString(s)

StringifyToolCall(c) ==
    <<"{", "id:">> \o StringifyString(<<c.id>>)
    \o <<",", "type:">> \o StringifyString(<<c.type>>)
    \o <<",", "function:", "{", "name:">>
    \o StringifyString(<<c.function.name>>)
    \o <<",", "arguments:">> \o StringifyString(c.function.arguments)
    \o <<"}", "}">>

RECURSIVE StringifyToolCalls(_)
StringifyToolCalls(cs) ==
    IF cs = <<>> THEN <<>>
    ELSE StringifyToolCall(Head(cs))
         \o (IF Len(cs) > 1 THEN <<",">> ELSE <<>>)
         \o StringifyToolCalls(Tail(cs))

\* JSON.stringify of one ChatMessage: the properties the object has.
StringifyMessage(m) ==
    <<"{", "role:">> \o StringifyString(<<m.role>>)
    \o <<",", "content:">> \o StringifyNullable(m.content)
    \o (IF "tool_calls" \in DOMAIN m
        THEN <<",", "tool_calls:", "[">>
             \o StringifyToolCalls(m.tool_calls) \o <<"]">>
        ELSE <<>>)
    \o (IF "tool_call_id" \in DOMAIN m
        THEN <<",", "tool_call_id:">> \o StringifyString(<<m.tool_call_id>>)
        ELSE <<>>)
    \o <<"}">>

RECURSIVE StringifyMessages(_)
StringifyMessages(h) ==
    IF h = <<>> THEN <<>>
    ELSE StringifyMessage(Head(h))
         \o (IF Len(h) > 1 THEN <<",">> ELSE <<>>)
         \o StringifyMessages(Tail(h))

\* JSON.stringify(chatHistory).
JSONstringify(chatHistory) ==
    <<"[">> \o StringifyMessages(chatHistory) \o <<"]">>

\* A parser's failure, and its success at a value with the next position.
Fail == [ok |-> FALSE]
Ok(value, next) == [ok |-> TRUE, value |-> value, next |-> next]

Tok(text, i) == IF i <= Len(text) THEN text[i] ELSE "<eof>"

Expect(text, i, tokens) ==
    /\ i + Len(tokens) - 1 <= Len(text)
    /\ SubSeq(text, i, i + Len(tokens) - 1) = tokens

\* The characters of a string, from after its opening quote to its closing
\* quote. An escape other than \" \\ \n is a syntax error.
RECURSIVE ParseChars(_, _, _)
ParseChars(text, i, acc) ==
    IF i > Len(text) THEN Fail
    ELSE IF text[i] = Quote THEN Ok(acc, i + 1)
    ELSE IF text[i] = Backslash
         THEN IF Tok(text, i + 1) \in {Quote, Backslash}
              THEN ParseChars(text, i + 2, Append(acc, text[i + 1]))
              ELSE IF Tok(text, i + 1) = "n"
              THEN ParseChars(text, i + 2, Append(acc, "\n"))
              ELSE Fail
    ELSE ParseChars(text, i + 1, Append(acc, text[i]))

ParseString(text, i) ==
    IF Tok(text, i) = Quote THEN ParseChars(text, i + 1, <<>>) ELSE Fail

\* The one element of a singleton set. A parser binds each intermediate
\* result once, as the element r of {result}, and goes on from it.
The(S) == CHOOSE x \in S : TRUE

\* A one-token string (a role, an id, a name): the token itself.
ParseWord(text, i) ==
    The({IF r.ok /\ Len(r.value) = 1 THEN Ok(r.value[1], r.next) ELSE Fail :
            r \in {ParseString(text, i)}})

ParseNullable(text, i) ==
    IF Tok(text, i) = "null" THEN Ok(Null, i + 1) ELSE ParseString(text, i)

\* {"id": id, "type": type, "function": {"name": name, "arguments": text}}
ParseToolCall(text, i) ==
    IF ~Expect(text, i, <<"{", "id:">>) THEN Fail
    ELSE The({
      IF ~id.ok \/ ~Expect(text, id.next, <<",", "type:">>) THEN Fail
      ELSE The({
        IF ~type.ok
           \/ ~Expect(text, type.next, <<",", "function:", "{", "name:">>)
        THEN Fail
        ELSE The({
          IF ~name.ok \/ ~Expect(text, name.next, <<",", "arguments:">>)
          THEN Fail
          ELSE The({
            IF ~arguments.ok \/ ~Expect(text, arguments.next, <<"}", "}">>)
            THEN Fail
            ELSE Ok([id |-> id.value, type |-> type.value,
                     function |-> [name |-> name.value,
                                   arguments |-> arguments.value]],
                    arguments.next + 2) :
            arguments \in {ParseString(text, name.next + 2)}}) :
          name \in {ParseWord(text, type.next + 4)}}) :
        type \in {ParseWord(text, id.next + 2)}}) :
      id \in {ParseWord(text, i + 2)}})

\* The elements of an array of tool calls, from position i to its "]".
RECURSIVE ParseToolCalls(_, _, _)
ParseToolCalls(text, i, acc) ==
    The({IF ~c.ok THEN Fail
         ELSE The({IF Tok(text, c.next) = ","
                   THEN ParseToolCalls(text, c.next + 1, a2)
                   ELSE IF Tok(text, c.next) = "]" THEN Ok(a2, c.next + 1)
                   ELSE Fail :
                      a2 \in {Append(acc, c.value)}}) :
            c \in {ParseToolCall(text, i)}})

ParseToolCallArray(text, i) ==
    IF Tok(text, i) # "[" THEN Fail
    ELSE IF Tok(text, i + 1) = "]" THEN Ok(<<>>, i + 2)
    ELSE ParseToolCalls(text, i + 1, <<>>)

\* The optional properties of a ChatMessage after its content, and its "}".
ParseMessageRest(text, i, base) ==
    The({
      IF ~calls.ok THEN Fail
      ELSE The({
        IF ~id.ok \/ Tok(text, id.next) # "}" THEN Fail
        ELSE Ok(IF calls.present /\ id.present
                THEN [role |-> base.role, content |-> base.content,
                      tool_calls |-> calls.value, tool_call_id |-> id.value]
                ELSE IF calls.present
                THEN [role |-> base.role, content |-> base.content,
                      tool_calls |-> calls.value]
                ELSE IF id.present
                THEN [role |-> base.role, content |-> base.content,
                      tool_call_id |-> id.value]
                ELSE base,
                id.next + 1) :
        id \in {IF Expect(text, calls.next, <<",", "tool_call_id:">>)
                THEN [present |-> TRUE] @@ ParseWord(text, calls.next + 2)
                ELSE [present |-> FALSE] @@ Ok("", calls.next)}}) :
      calls \in {IF Expect(text, i, <<",", "tool_calls:">>)
                 THEN [present |-> TRUE] @@ ParseToolCallArray(text, i + 2)
                 ELSE [present |-> FALSE] @@ Ok(<<>>, i)}})

\* One ChatMessage object.
ParseMessage(text, i) ==
    IF ~Expect(text, i, <<"{", "role:">>) THEN Fail
    ELSE The({
      IF ~role.ok \/ ~Expect(text, role.next, <<",", "content:">>) THEN Fail
      ELSE The({
        IF ~content.ok THEN Fail
        ELSE ParseMessageRest(text, content.next,
                              [role |-> role.value,
                               content |-> content.value]) :
        content \in {ParseNullable(text, role.next + 2)}}) :
      role \in {ParseWord(text, i + 2)}})

RECURSIVE ParseMessages(_, _, _)
ParseMessages(text, i, acc) ==
    The({IF ~m.ok THEN Fail
         ELSE The({IF Tok(text, m.next) = ","
                   THEN ParseMessages(text, m.next + 1, a2)
                   ELSE IF Tok(text, m.next) = "]" THEN Ok(a2, m.next + 1)
                   ELSE Fail :
                      a2 \in {Append(acc, m.value)}}) :
            m \in {ParseMessage(text, i)}})

ParseMessageArray(text, i) ==
    IF Tok(text, i) # "[" THEN Fail
    ELSE IF Tok(text, i + 1) = "]" THEN Ok(<<>>, i + 2)
    ELSE ParseMessages(text, i + 1, <<>>)

\* A whole text that is one JSON value other than an array: a literal, a
\* number, a string, the empty object or a message object.
IsNonArrayJSON(text) ==
    \/ text \in {<<"null">>, <<"true">>, <<"false">>, <<"0">>, <<"7">>,
                 <<"{", "}">>}
    \/ \E r \in {ParseString(text, 1)} : r.ok /\ r.next = Len(text) + 1
    \/ \E r \in {ParseMessage(text, 1)} : r.ok /\ r.next = Len(text) + 1

\* JSON.parse(text) for the texts of the model: an array of messages, another
\* JSON value, or a SyntaxError.
JSONparse(text) ==
    The({IF r.ok /\ r.next = Len(text) + 1
         THEN [threw |-> FALSE, isArray |-> TRUE, value |-> r.value]
         ELSE IF IsNonArrayJSON(text)
         THEN [threw |-> FALSE, isArray |-> FALSE]
         ELSE [threw |-> TRUE] :
            r \in {ParseMessageArray(text, 1)}})

\* ------------------------------------------------------------------------
\* chatHistory.ts: persistence in localStorage. The storage is a function
\* from the keys present to their texts; a key is the sequence of the parts
\* its template string concatenates.
\* ------------------------------------------------------------------------

getItem(storage, key) == IF key \in DOMAIN storage THEN storage[key] ELSE Null

setItem(storage, key, value) == (key :> value) @@ storage

removeItem(storage, key) == [k \in DOMAIN storage \ {key} |-> storage[k]]

startsWith(key, prefix) ==
    Len(key) >= Len(prefix) /\ SubSeq(key, 1, Len(prefix)) = prefix

getStorageKey(voiceName) == <<"chatHistory_", voiceName>>

memoryPrefix(voiceName) == <<"chatHistory_", voiceName, "_memory_">>

memoryKey(voiceName, timestamp) == memoryPrefix(voiceName) \o <<timestamp>>

saveChatHistoryNoEmpty(storage, chatHistory, voiceName) ==
    IF chatHistory = <<>> THEN storage
    ELSE setItem(storage, getStorageKey(voiceName),
                 JSONstringify(chatHistory))

saveChatHistory(storage, chatHistory, voiceName) ==
    setItem(storage, getStorageKey(voiceName), JSONstringify(chatHistory))

loadChatHistoryNoArrayCheck(storage, voiceName) ==
    LET savedHistory == getItem(storage, getStorageKey(voiceName))
    IN IF ~Truthy(savedHistory) THEN <<>>
       ELSE The({IF parsed.threw THEN <<>>
                 ELSE IF parsed.isArray THEN parsed.value
                 ELSE savedHistory :
                    parsed \in {JSONparse(savedHistory)}})

\* loadChatHistory only reads: the storage it leaves is the one it found.
storageAfterLoad(storage, voiceName) == storage

loadChatHistory(storage, voiceName) ==
    LET savedHistory == getItem(storage, getStorageKey(voiceName))
    IN IF ~Truthy(savedHistory) THEN <<>>
       ELSE The({IF parsed.threw THEN <<>>
                 ELSE IF parsed.isArray THEN parsed.value
                 ELSE <<>> :
                    parsed \in {JSONparse(savedHistory)}})

\* saveMemory at the instant new Date().toISOString() reads timestamp.
saveMemory(storage, voiceName, timestamp) ==
    LET currentHistory == getItem(storage, getStorageKey(voiceName))
    IN IF Truthy(currentHistory)
       THEN setItem(storage, memoryKey(voiceName, timestamp), currentHistory)
       ELSE storage

\* Array.prototype.sort().reverse() of a set of timestamps: newest first.
\* ISO timestamps have one width, so their string order is their time order.
RECURSIVE SortedDescending(_)
SortedDescending(S) ==
    IF S = {} THEN <<>>
    ELSE LET newest == CHOOSE t \in S : \A u \in S : u <= t
         IN <<newest>> \o SortedDescending(S \ {newest})

\* getMemoryList without its reverse(): oldest first.
getMemoryListUnreversed(storage, voiceName) ==
    The({[i \in 1..Len(d) |-> d[Len(d) + 1 - i]] :
            d \in {SortedDescending(
                       {key[Len(key)] :
                           key \in {k \in DOMAIN storage :
                                       startsWith(k, memoryPrefix(voiceName))}})}})

getMemoryList(storage, voiceName) ==
    SortedDescending(
        {key[Len(key)] :
            key \in {k \in DOMAIN storage :
                        startsWith(k, memoryPrefix(voiceName))}})

\* loadMemory that restores the newest slot whatever timestamp is asked for.
loadMemoryNewest(storage, voiceName, memoryTimestamp) ==
    LET memoryHistory ==
            getItem(storage,
                    memoryKey(voiceName, Head(getMemoryList(storage, voiceName))))
    IN IF getMemoryList(storage, voiceName) # <<>> /\ Truthy(memoryHistory)
       THEN setItem(storage, getStorageKey(voiceName), memoryHistory)
       ELSE storage

\* loadMemory with the copy reversed: the live text is written to the slot.
loadMemoryToSlot(storage, voiceName, memoryTimestamp) ==
    LET memoryHistory == getItem(storage, memoryKey(voiceName, memoryTimestamp))
    IN IF Truthy(memoryHistory)
       THEN setItem(storage, memoryKey(voiceName, memoryTimestamp),
                    getItem(storage, getStorageKey(voiceName)))
       ELSE storage

loadMemory(storage, voiceName, memoryTimestamp) ==
    LET memoryHistory == getItem(storage, memoryKey(voiceName, memoryTimestamp))
    IN IF Truthy(memoryHistory)
       THEN setItem(storage, getStorageKey(voiceName), memoryHistory)
       ELSE storage

\* clearChatHistory that removes every key of the voiceName, slots included.
clearChatHistoryAll(storage, voiceName) ==
    [k \in {k \in DOMAIN storage : ~startsWith(k, getStorageKey(voiceName))}
        |-> storage[k]]

clearChatHistory(storage, voiceName) ==
    removeItem(storage, getStorageKey(voiceName))

\* ------------------------------------------------------------------------
\* State
\* ------------------------------------------------------------------------

VARIABLES
    localStorage,    \* window.localStorage: key -> text, for the keys present
    mounted,         \* the Unmute component has mounted (its effects ran once)
    voiceName,       \* unmuteConfig.voiceName
    rawChatHistory,  \* the rawChatHistory state
    readyState,      \* the websocket's readyState
    savedMemories,   \* the savedMemories state
    now,             \* the instant new Date() reads
    captured,        \* history variable: per memory slot written by saveMemory,
                     \* the text of the live key it copied
    upload,          \* handleUploadMemories: where it is, what it closed over
    download,        \* handleDownloadMemories: where it is, what it closed over
    lastMessage,     \* useWebSocket's lastMessage, and whether the inbound
                     \* effect has run for it
    inFlight,        \* the tool calls whose handleToolCall promise is pending,
                     \* in the order they were started
    sent,            \* the envelopes the step just taken handed to sendMessage
    errors,          \* the errors state
    debugDict,       \* the debugDict state
    crashed,         \* an effect has thrown: React has unmounted the tree
    arrived,         \* history variable: the inbound messages, in arrival order
    unmuteConfig,    \* unmuteConfig.instructions and unmuteConfig.voice
    shouldConnect,   \* the shouldConnect state
    audioRunning,    \* the audio processor is set up: capture and playback run
    connectPress,    \* onConnectButtonPress: idle, or awaiting the microphone
    call,   \* the function call under way (function-level specifications),
            \* the handler that ran last (SpecStore)
    ret     \* what the function call returned

\* The state of a session that only the socket's handlers change.
sessionVars == <<lastMessage, inFlight, errors, debugDict, crashed, arrived>>

\* The configuration of the session and whether it wants a connection.
connectVars == <<unmuteConfig, shouldConnect, audioRunning, connectPress>>

componentVars ==
    <<mounted, voiceName, rawChatHistory, readyState, savedMemories, now,
      captured, upload, download, sent, sessionVars, connectVars>>

vars == <<localStorage, componentVars, call, ret>>

\* The instructions and the voice of the configuration the component starts
\* with.
DEFAULT_UNMUTE_CONFIG == [instructions |-> "i1", voice |-> "voice1"]

\* The component before it mounts.
ComponentInit ==
    /\ mounted = FALSE
    /\ voiceName = "v1"
    /\ rawChatHistory = <<>>
    /\ readyState = "UNINSTANTIATED"
    /\ savedMemories = <<>>
    /\ now = 1
    /\ captured = <<>>
    /\ upload = [pc |-> "idle"]
    /\ download = [pc |-> "idle"]
    /\ lastMessage = [null |-> TRUE]
    /\ inFlight = <<>>
    /\ sent = <<>>
    /\ errors = <<>>
    /\ debugDict = [null |-> TRUE]
    /\ crashed = FALSE
    /\ arrived = <<>>
    /\ unmuteConfig = DEFAULT_UNMUTE_CONFIG
    /\ shouldConnect = FALSE
    /\ audioRunning = FALSE
    /\ connectPress = "idle"

NoCall == [fn |-> "none"]
NoRet == [done |-> FALSE]

\* ------------------------------------------------------------------------
\* SpecCompress: compressChatHistory on every bounded history and separator
\* ------------------------------------------------------------------------

ToolCallOf(id, name, arguments) ==
    [id |-> id, type |-> "function",
     function |-> [name |-> name, arguments |-> arguments]]

\* The messages the histories of SpecCompress are made of: text messages
\* with empty, blank, plain and space-led content, tool-call messages with
\* null content, and tool results.
CompressContents == {<<>>, <<" ">>, <<"a">>, <<" ", "a">>}

CompressMessages ==
    {[role |-> r, content |-> c] : r \in {"user", "assistant"},
                                   c \in CompressContents}
    \cup {[role |-> "assistant", content |-> Null,
           tool_calls |-> <<ToolCallOf(id, "get_weather", <<"{", "}">>)>>] :
             id \in {"c1", "c2"}}
    \cup {[role |-> "tool", content |-> <<"a">>, tool_call_id |-> id] :
             id \in {"c1", "c2"}}

Separators == {<<>>, <<"\n">>}

SeqsUpTo(S, n) == UNION {[1..k -> S] : k \in 0..n}

InitCompress ==
    /\ call \in {[fn |-> "compressChatHistory", chatHistory |-> h,
                   separator |-> s] :
                     h \in SeqsUpTo(CompressMessages, MaxLen),
                     s \in Separators}
    /\ ret = NoRet
    /\ localStorage = <<>>
    /\ ComponentInit

CallCompress ==
    /\ call.fn = "compressChatHistory"
    /\ ~ret.done
    /\ ret' = [done |-> TRUE,
               compressed |->
                   compressChatHistory(call.chatHistory, call.separator),
               chatHistory |->
                   compressedInput(call.chatHistory, call.separator)]
    /\ UNCHANGED <<call, localStorage, componentVars>>

NextCompress == CallCompress

SpecCompress == InitCompress /\ [][NextCompress]_vars

\* --- Claims about compressChatHistory (SpecCompress) ----------------------

RECURSIVE Join(_, _)
Join(strings, separator) ==
    IF strings = <<>> THEN <<>>
    ELSE IF Len(strings) = 1 THEN strings[1]
    ELSE strings[1] \o separator \o Join(Tail(strings), separator)

Contents(h) == [i \in 1..Len(h) |-> h[i].content]

NullCount(h) == Cardinality({i \in 1..Len(h) : h[i].content = Null})

Compressed == call.fn = "compressChatHistory" /\ ret.done

\* A non-empty history whose messages share one role and have non-null content.
SameRoleNonNull(h) ==
    /\ Len(h) > 0
    /\ \A i \in 1..Len(h) : h[i].role = h[1].role /\ h[i].content # Null

\* The same, with nothing for the truthiness test to reject: the first
\* content is non-empty once its leading whitespace is gone and every later
\* content is non-empty.
SameRoleMergeable(h) ==
    /\ SameRoleNonNull(h)
    /\ trimStart(h[1].content) # <<>>
    /\ \A i \in 2..Len(h) : h[i].content # <<>>

\* C1 as stated: same-role messages with non-null content compress to exactly
\* one message whose content is the original contents joined by the separator.
C1_JoinedAsStated ==
    (Compressed /\ SameRoleNonNull(call.chatHistory)) =>
        /\ Len(ret.compressed) = 1
        /\ ret.compressed[1].content =
               Join(Contents(call.chatHistory), call.separator)

\* C1 as the code has it: same-role messages whose contents are non-empty
\* (the first one after trimming) compress to exactly one message of that
\* role, whose content is the first content without its leading whitespace,
\* then the other contents unchanged, joined by the separator in order.
C1_JoinedTrimmed ==
    (Compressed /\ SameRoleMergeable(call.chatHistory)) =>
        LET h == call.chatHistory
        IN /\ Len(ret.compressed) = 1
           /\ ret.compressed[1].role = h[1].role
           /\ ret.compressed[1].content =
                  Join(<<trimStart(h[1].content)>> \o Tail(Contents(h)),
                       call.separator)

\* C1's case: three mergeable same-role messages, the first led by a space,
\* joined by a non-empty separator.
C1_Witness ==
    /\ Compressed
    /\ SameRoleMergeable(call.chatHistory)
    /\ Len(call.chatHistory) = MaxLen
    /\ Head(call.chatHistory[1].content) = " "
    /\ call.separator # <<>>
    /\ Len(ret.compressed) = 1

\* C2: a message with null content is never merged: it stands alone in the
\* output, unchanged, between the compression of what precedes it and the
\* compression of what follows it, and the output has as many null-content
\* messages as the input.
C2_NullNeverMerged ==
    Compressed =>
        LET h == call.chatHistory
            s == call.separator
        IN /\ \A i \in 1..Len(h) :
                  h[i].content = Null =>
                      ret.compressed =
                          compressChatHistory(SubSeq(h, 1, i - 1), s)
                          \o <<h[i]>>
                          \o compressChatHistory(SubSeq(h, i + 1, Len(h)), s)
           /\ NullCount(ret.compressed) = NullCount(h)

\* C2's case: a null-content message between two messages of its own role.
C2_Witness ==
    /\ Compressed
    /\ Len(call.chatHistory) = 3
    /\ call.chatHistory[2].content = Null
    /\ call.chatHistory[1].role = call.chatHistory[2].role
    /\ call.chatHistory[3].role = call.chatHistory[2].role
    /\ Truthy(call.chatHistory[1].content)
    /\ Truthy(call.chatHistory[3].content)
    /\ Len(ret.compressed) = 3

\* ------------------------------------------------------------------------
\* SpecPersist: saveChatHistory then loadChatHistory, and loadChatHistory
\* alone, on every bounded history, voice name and prior storage
\* ------------------------------------------------------------------------

VoiceNames == {"v1", "v2"}

\* Messages of the saved histories: text with a space, a quote, a newline
\* and a backslash, the empty text, a tool call with its arguments text, a
\* tool result.
PersistMessages ==
    {[role |-> "user", content |-> <<" ", "a">>],
     [role |-> "system", content |-> <<>>],
     [role |-> "assistant", content |-> <<Quote, "\n", Backslash>>],
     [role |-> "assistant", content |-> Null,
      tool_calls |-> <<ToolCallOf("c1", "get_coordinates",
                         <<"{", "city:", Quote, "x", Quote, "}">>)>>],
     [role |-> "tool", content |-> <<"{", "}">>, tool_call_id |-> "c1"]}

\* Texts a live key may hold before the call: the empty string, text that
\* is not JSON, JSON that is not an array, and serialized histories.
CorruptTexts == {<<"[">>, <<"[", "]", "]">>, <<"{", "role:">>, <<"x">>}

NonArrayTexts ==
    {<<"null">>, <<"7">>, <<"{", "}">>, StringifyString(<<"a">>),
     StringifyMessage([role |-> "user", content |-> <<"a">>])}

PriorTexts ==
    {<<>>} \cup CorruptTexts \cup NonArrayTexts
    \cup {JSONstringify(<<>>),
          JSONstringify(<<[role |-> "user", content |-> <<"b">>]>>)}

\* Storages before the call: each live key absent or holding a prior text,
\* with or without a memory slot.
PriorStorages ==
    {live @@ slot :
        live \in UNION {[{getStorageKey(v) : v \in V} -> PriorTexts] :
                           V \in SUBSET VoiceNames},
        slot \in {<<>>, memoryKey("v1", 1) :> JSONstringify(<<>>)}}

InitPersist ==
    /\ localStorage \in PriorStorages
    /\ call \in {[fn |-> "saveChatHistory", chatHistory |-> h,
                  voiceName |-> v] :
                    h \in SeqsUpTo(PersistMessages, MaxSaved),
                    v \in VoiceNames}
                \cup {[fn |-> "loadChatHistory", voiceName |-> v] :
                        v \in VoiceNames}
    /\ ret = [stage |-> "start"]
    /\ ComponentInit

CallSaveChatHistory ==
    /\ call.fn = "saveChatHistory"
    /\ ret.stage = "start"
    /\ localStorage' =
           saveChatHistory(localStorage, call.chatHistory, call.voiceName)
    /\ ret' = [stage |-> "saved"]
    /\ UNCHANGED <<call, componentVars>>

CallLoadChatHistory ==
    /\ \/ call.fn = "saveChatHistory" /\ ret.stage = "saved"
       \/ call.fn = "loadChatHistory" /\ ret.stage = "start"
    /\ ret' = [stage |-> "loaded",
               value |-> loadChatHistory(localStorage, call.voiceName),
               storageBefore |-> localStorage]
    /\ localStorage' = storageAfterLoad(localStorage, call.voiceName)
    /\ UNCHANGED <<call, componentVars>>

NextPersist == CallSaveChatHistory \/ CallLoadChatHistory

SpecPersist == InitPersist /\ [][NextPersist]_vars

\* --- Claims about saveChatHistory and loadChatHistory (SpecPersist) -------

\* C3: saveChatHistory(h, v) followed at once by loadChatHistory(v) returns
\* a history equal to h, whatever the storage held before.
C3_SaveLoadRoundTrip ==
    (call.fn = "saveChatHistory" /\ ret.stage = "loaded") =>
        ret.value = call.chatHistory

\* C3's case: a history with a tool call and an escaped text, saved over a
\* live key that held something else, has been loaded back.
C3_Witness ==
    /\ call.fn = "saveChatHistory"
    /\ ret.stage = "loaded"
    /\ Len(call.chatHistory) = 2
    /\ "tool_calls" \in DOMAIN call.chatHistory[1]
    /\ call.chatHistory[2].content = <<Quote, "\n", Backslash>>
    /\ ret.value = call.chatHistory
    /\ getStorageKey("v1") \in DOMAIN localStorage
    /\ getStorageKey("v2") \in DOMAIN localStorage
    /\ call.voiceName = "v1"

\* The live key of v is absent (or empty), is not JSON, or is JSON that is
\* no array.
LiveKeyUnusable(storage, v) ==
    LET text == getItem(storage, getStorageKey(v))
    IN \/ ~Truthy(text)
       \/ JSONparse(text).threw
       \/ ~JSONparse(text).isArray

\* C4: loadChatHistory(v) returns the empty sequence whenever the live key
\* of v is absent, holds text that is not JSON or holds JSON that is not an
\* array, and it leaves the storage as it was.
C4_LoadUnusableIsEmpty ==
    (call.fn = "loadChatHistory" /\ ret.stage = "loaded"
     /\ LiveKeyUnusable(ret.storageBefore, call.voiceName)) =>
        /\ ret.value = <<>>
        /\ localStorage = ret.storageBefore

\* C4's case: loadChatHistory has returned from a live key that holds JSON
\* which is no array, beside another voice's key that holds text that is not
\* JSON.
C4_Witness ==
    /\ call.fn = "loadChatHistory"
    /\ ret.stage = "loaded"
    /\ call.voiceName = "v1"
    /\ getItem(localStorage, getStorageKey("v1")) \in NonArrayTexts
    /\ getItem(localStorage, getStorageKey("v2")) \in CorruptTexts
    /\ ret.value = <<>>

\* ------------------------------------------------------------------------
\* SpecStore: the Unmute component as far as it drives the history store:
\* its effects on mount, on a change of voiceName and on a change of
\* readyState, the inbound text deltas, and the save / load / clear /
\* upload / download memory handlers.
\* ------------------------------------------------------------------------

\* Every render computes compressChatHistory(rawChatHistory, ""), which
\* assigns the trimmed content to the state's own message objects: the
\* state a render leaves is the input as compressChatHistory leaves it.
Render(history) == compressedInput(history, <<>>)

\* The chatHistory constant of a render.
chatHistoryOf(history) == compressChatHistory(history, <<>>)

\* Characters of the contents of a history.
RECURSIVE ContentSize(_)
ContentSize(history) ==
    IF history = <<>> THEN 0
    ELSE (IF history[1].content = Null THEN 0 ELSE Len(history[1].content))
         + ContentSize(Tail(history))

Elements(list) == {list[i] : i \in 1..Len(list)}

\* react-use-websocket's readyState and the changes the socket makes to it.
ReadyStateTransitions ==
    {<<"UNINSTANTIATED", "CONNECTING">>, <<"CONNECTING", "OPEN">>,
     <<"OPEN", "CLOSING">>, <<"CLOSING", "CLOSED">>,
     <<"OPEN", "CLOSED">>, <<"CONNECTING", "CLOSED">>,
     <<"CLOSED", "CONNECTING">>}

\* The text a delta envelope carries.
Deltas == {<<"a">>}

\* What localStorage holds when the page loads: the live key of the first
\* voice absent, not JSON, or a history saved by an earlier visit.
InitStorages ==
    {<<>>,
     getStorageKey("v1") :> <<"[">>,
     getStorageKey("v1") :>
         JSONstringify(<<[role |-> "user", content |-> <<"a">>]>>)}

\* Files of the remote memory store: snapshots <timestamp>.json, and one
\* that is no .json file.
RemoteFilenames ==
    {<<t, ".json">> : t \in 1..MaxTime} \cup {<<0, ".txt">>}

\* GET /v1/memories/{voiceName}: a listing of some of the files.
RECURSIVE Listing(_)
Listing(F) ==
    IF F = {} THEN <<>>
    ELSE LET f == CHOOSE x \in F : TRUE IN <<f>> \o Listing(F \ {f})

\* Bodies GET /v1/memories/{voiceName}/{filename} answers with: a history,
\* text that is not JSON.
RemoteBodies ==
    {JSONstringify(<<[role |-> "user", content |-> <<"r">>]>>), <<"[">>}

endsWithJson(filename) == filename[Len(filename)] = ".json"

\* JSON.stringify(await memoryResponse.json()) of a body that parsed.
Restringify(body) ==
    The({IF parsed.isArray THEN JSONstringify(parsed.value) ELSE body :
            parsed \in {JSONparse(body)}})

\* The key the consent modal keeps the recording consent under.
COOKIE_CONSENT_STORAGE_KEY == <<"cookieConsent">>

\* What the effect of a render with readyState OPEN sends first.
sessionUpdate(storage, config) ==
    [type |-> "session.update",
     session |-> [instructions |-> config.instructions,
                  voice |-> config.voice,
                  allow_recording |->
                      getItem(storage, COOKIE_CONSENT_STORAGE_KEY)
                          = <<"t", "r", "u", "e">>,
                  tools |-> "tools",
                  tool_choice |-> "auto"]]

conversationItemCreate(item) ==
    [type |-> "conversation.item.create", item |-> item]

\* A replay loop that sends a tool message also when it has no content.
replayItemOfAnyTool(message) ==
    IF message.role = "tool"
    THEN IF "tool_call_id" \notin DOMAIN message
         THEN [skip |-> TRUE]
         ELSE [skip |-> FALSE,
               item |-> [type |-> "function_call_output",
                         call_id |-> message.tool_call_id,
                         output |-> message.content]]
    ELSE IF message.role = "assistant" /\ "tool_calls" \in DOMAIN message
    THEN [skip |-> FALSE,
          item |-> [type |-> "message", role |-> "assistant",
                    content |-> message.content,
                    tool_calls |-> message.tool_calls]]
    ELSE IF Truthy(message.content)
    THEN [skip |-> FALSE,
          item |-> [type |-> "message", role |-> message.role,
                    content |-> <<[type |-> "input_text",
                                   text |-> message.content]>>]]
    ELSE [skip |-> TRUE]

\* The item the replay loop builds for one message of chatHistory, and
\* whether it builds one.
replayItem(message) ==
    IF message.role = "tool"
    THEN IF \/ "tool_call_id" \notin DOMAIN message
            \/ ~Truthy(message.content)
         THEN [skip |-> TRUE]
         ELSE [skip |-> FALSE,
               item |-> [type |-> "function_call_output",
                         call_id |-> message.tool_call_id,
                         output |-> message.content]]
    ELSE IF message.role = "assistant" /\ "tool_calls" \in DOMAIN message
    THEN [skip |-> FALSE,
          item |-> [type |-> "message", role |-> "assistant",
                    content |-> message.content,
                    tool_calls |-> message.tool_calls]]
    ELSE IF Truthy(message.content)
    THEN [skip |-> FALSE,
          item |-> [type |-> "message", role |-> message.role,
                    content |-> <<[type |-> "input_text",
                                   text |-> message.content]>>]]
    ELSE [skip |-> TRUE]

\* A replay loop that walks chatHistory from its end.
RECURSIVE replayNewestFirst(_)
replayNewestFirst(chatHistory) ==
    IF chatHistory = <<>> THEN <<>>
    ELSE replayNewestFirst(Tail(chatHistory))
         \o (IF replayItem(Head(chatHistory)).skip THEN <<>>
             ELSE <<conversationItemCreate(
                        replayItem(Head(chatHistory)).item)>>)

\* The replay loop over chatHistory: the envelopes it sends, in order.
RECURSIVE replay(_)
replay(chatHistory) ==
    IF chatHistory = <<>> THEN <<>>
    ELSE (IF replayItem(Head(chatHistory)).skip THEN <<>>
          ELSE <<conversationItemCreate(replayItem(Head(chatHistory)).item)>>)
         \o replay(Tail(chatHistory))

\* The effect with dependencies [unmuteConfig, readyState, sendMessage]:
\* what it hands to sendMessage in a render with this readyState.
onOpen(state, storage, config, rawHistory) ==
    IF state # "OPEN" THEN <<>>
    ELSE <<sessionUpdate(storage, config)>>
         \o (IF Len(rawHistory) > 0 THEN replay(chatHistoryOf(rawHistory))
             ELSE <<>>)

\* useAudioProcessor's setupAudio: capture and playback run from here on.
setupAudio(running) == TRUE

\* useAudioProcessor's shutdownAudio: capture and playback are torn down.
shutdownAudio(running) == FALSE

\* shutdownAudio under the condition of the effect that calls it.
shutdownAudioIf(condition, running) ==
    IF condition THEN shutdownAudio(running) ELSE running

InitStore ==
    /\ localStorage \in InitStorages
    /\ ComponentInit
    /\ call = NoCall
    /\ ret = NoRet

\* First render and its effects, in the order the component declares them:
\* load the history and the memory list of voiceName (278-281), then save
\* this render's chatHistory under voiceName (284-286).
Mount ==
    /\ ~mounted
    /\ ~crashed
    /\ mounted' = TRUE
    /\ rawChatHistory' = Render(loadChatHistory(localStorage, voiceName))
    /\ localStorage' = saveChatHistory(localStorage,
                                       chatHistoryOf(rawChatHistory), voiceName)
    /\ savedMemories' = getMemoryList(localStorage', voiceName)
    /\ shouldConnect' = FALSE
    /\ audioRunning' = shutdownAudio(audioRunning)
    /\ call' = NoCall
    /\ sent' = <<>>
    /\ UNCHANGED <<sessionVars, unmuteConfig, connectPress>>
    /\ UNCHANGED <<voiceName, readyState, now, captured, upload, download, ret>>

\* setConfig with another voiceName: the render with the new name still
\* holds the old rawChatHistory; its effects load the new name's history and
\* then save this render's chatHistory under the new name.
SetVoiceName(v) ==
    /\ mounted
    /\ v # voiceName
    /\ voiceName' = v
    /\ rawChatHistory' = Render(loadChatHistory(localStorage, v))
    /\ localStorage' = saveChatHistory(localStorage,
                                       chatHistoryOf(rawChatHistory), v)
    /\ savedMemories' = getMemoryList(localStorage', v)
    /\ UNCHANGED connectVars
    /\ call' = NoCall
    /\ sent' = onOpen(readyState, localStorage, unmuteConfig, rawChatHistory)
    /\ UNCHANGED sessionVars
    /\ UNCHANGED <<mounted, readyState, now, captured, upload, download, ret>>

\* A close effect that waits for the socket to be closed.
onCloseWhenClosed(state, wanted) ==
    IF state = "CLOSED" THEN FALSE ELSE wanted

\* The effect with dependencies [readyState, shutdownAudio]: whether the
\* session still wants a connection after a render with this readyState.
onClose(state, wanted) ==
    IF state \in {"CLOSING", "CLOSED"} THEN FALSE ELSE wanted

\* The socket changes readyState: the save effect runs with this render's
\* chatHistory, then the effect that stops the session when the socket is
\* closing or closed, then the effect that sends the configuration and
\* replays the history when the render's readyState is OPEN.
ReadyStateChange(next) ==
    /\ mounted
    /\ <<readyState, next>> \in ReadyStateTransitions
    /\ readyState' = next
    /\ localStorage' = saveChatHistory(localStorage,
                                       chatHistoryOf(rawChatHistory), voiceName)
    /\ shouldConnect' = onClose(next, shouldConnect)
    /\ audioRunning' = shutdownAudioIf(next \in {"CLOSING", "CLOSED"},
                                       audioRunning)
    /\ call' = NoCall
    /\ sent' = onOpen(next, localStorage, unmuteConfig, rawChatHistory)
    /\ UNCHANGED <<sessionVars, unmuteConfig, connectPress>>
    /\ UNCHANGED <<mounted, voiceName, rawChatHistory, savedMemories, now,
                   captured, upload, download, ret>>

\* The configurations setConfig is called with: the voice and the
\* instructions of the two characters the configurator offers here.
UnmuteConfigs ==
    {[instructions |-> i, voice |-> v] : i \in {"i1", "i2"},
                                         v \in {"voice1", "voice2"}}

\* A disconnect effect that stops wanting a connection and leaves the audio
\* processor running.
onConfigChangeKeepsAudio(wanted, running) ==
    [shouldConnect |-> FALSE, audioRunning |-> running]

\* The effect with dependencies [shutdownAudio, unmuteConfig.voice,
\* unmuteConfig.instructions].
onConfigChange(wanted, running) ==
    [shouldConnect |-> FALSE, audioRunning |-> shutdownAudio(running)]

\* setConfig with another voice or other instructions and the same
\* voiceName: the effect that sends the configuration and replays the
\* history runs with the new configuration, then the disconnect effect.
SetUnmuteConfig(config) ==
    /\ mounted
    /\ config # unmuteConfig
    /\ unmuteConfig' = config
    /\ sent' = onOpen(readyState, localStorage, config, rawChatHistory)
    /\ shouldConnect' = onConfigChange(shouldConnect, audioRunning).shouldConnect
    /\ audioRunning' = onConfigChange(shouldConnect, audioRunning).audioRunning
    /\ call' = [fn |-> "setConfig"]
    /\ UNCHANGED <<localStorage, mounted, voiceName, rawChatHistory, readyState,
                   savedMemories, now, captured, upload, download, ret,
                   sessionVars, connectPress>>

\* onConnectButtonPress up to its first await: a session that wants a
\* connection stops wanting it and shuts the audio down; one that does not
\* asks for the microphone.
OnConnectButtonPress ==
    /\ mounted
    /\ connectPress = "idle"
    /\ IF shouldConnect
       THEN /\ shouldConnect' = FALSE
            /\ audioRunning' = shutdownAudio(audioRunning)
            /\ UNCHANGED connectPress
       ELSE /\ connectPress' = "askMicrophoneAccess"
            /\ UNCHANGED <<shouldConnect, audioRunning>>
    /\ call' = [fn |-> "onConnectButtonPress", disconnects |-> shouldConnect]
    /\ sent' = <<>>
    /\ UNCHANGED <<localStorage, mounted, voiceName, rawChatHistory, readyState,
                   savedMemories, now, captured, upload, download, ret,
                   sessionVars, unmuteConfig>>

\* askMicrophoneAccess resolves, with a media stream or with null: with a
\* stream the audio is set up and the session wants a connection.
OnMicrophoneAccess(mediaStream) ==
    /\ connectPress = "askMicrophoneAccess"
    /\ connectPress' = "idle"
    /\ IF mediaStream
       THEN /\ audioRunning' = setupAudio(audioRunning)
            /\ shouldConnect' = TRUE
       ELSE UNCHANGED <<shouldConnect, audioRunning>>
    /\ call' = [fn |-> "onConnectButtonPress", resumes |-> mediaStream]
    /\ sent' = <<>>
    /\ UNCHANGED <<localStorage, mounted, voiceName, rawChatHistory, readyState,
                   savedMemories, now, captured, upload, download, ret,
                   sessionVars, unmuteConfig>>

\* conversation.item.input_audio_transcription.delta
OnTranscriptionDelta(delta) ==
    /\ readyState = "OPEN"
    /\ ContentSize(rawChatHistory) < MaxContent
    /\ rawChatHistory' =
           Render(Append(rawChatHistory,
                         [role |-> "user", content |-> <<" ">> \o delta]))
    /\ UNCHANGED connectVars
    /\ call' = NoCall
    /\ sent' = <<>>
    /\ UNCHANGED sessionVars
    /\ UNCHANGED <<localStorage, mounted, voiceName, readyState, savedMemories,
                   now, captured, upload, download, ret>>

\* response.text.delta
OnTextDelta(delta) ==
    /\ readyState = "OPEN"
    /\ ContentSize(rawChatHistory) < MaxContent
    /\ rawChatHistory' =
           Render(Append(rawChatHistory,
                         [role |-> "assistant", content |-> <<" ">> \o delta]))
    /\ UNCHANGED connectVars
    /\ call' = NoCall
    /\ sent' = <<>>
    /\ UNCHANGED sessionVars
    /\ UNCHANGED <<localStorage, mounted, voiceName, readyState, savedMemories,
                   now, captured, upload, download, ret>>

\* Time passes.
Tick ==
    /\ now < MaxTime
    /\ now' = now + 1
    /\ UNCHANGED connectVars
    /\ call' = NoCall
    /\ sent' = <<>>
    /\ UNCHANGED sessionVars
    /\ UNCHANGED <<localStorage, mounted, voiceName, rawChatHistory, readyState,
                   savedMemories, captured, upload, download, ret>>

HandleSaveMemory ==
    /\ mounted
    /\ localStorage' = saveMemory(localStorage, voiceName, now)
    /\ savedMemories' = getMemoryList(localStorage', voiceName)
    /\ captured' =
           IF Truthy(getItem(localStorage, getStorageKey(voiceName)))
           THEN (memoryKey(voiceName, now) :>
                    getItem(localStorage, getStorageKey(voiceName)))
                @@ captured
           ELSE captured
    /\ UNCHANGED connectVars
    /\ call' = [fn |-> "handleSaveMemory", timestamp |-> now]
    /\ sent' = <<>>
    /\ UNCHANGED sessionVars
    /\ UNCHANGED <<mounted, voiceName, rawChatHistory, readyState, now, upload,
                   download, ret>>

HandleSelectMemory(memory) ==
    /\ mounted
    /\ memory \in Elements(savedMemories)
    /\ localStorage' = loadMemory(localStorage, voiceName, memory)
    /\ rawChatHistory' = Render(loadChatHistory(localStorage', voiceName))
    /\ UNCHANGED connectVars
    /\ call' = [fn |-> "handleSelectMemory", memory |-> memory]
    /\ sent' = <<>>
    /\ UNCHANGED sessionVars
    /\ UNCHANGED <<mounted, voiceName, readyState, savedMemories, now, captured,
                   upload, download, ret>>

HandleClearMemory ==
    /\ mounted
    /\ localStorage' = clearChatHistory(localStorage, voiceName)
    /\ rawChatHistory' = <<>>
    /\ UNCHANGED connectVars
    /\ call' = [fn |-> "handleClearMemory"]
    /\ sent' = <<>>
    /\ UNCHANGED sessionVars
    /\ UNCHANGED <<mounted, voiceName, readyState, savedMemories, now, captured,
                   upload, download, ret>>

\* handleUploadMemories up to its loop: the list of this voiceName's slots.
HandleUploadMemories ==
    /\ mounted
    /\ upload.pc = "idle"
    /\ getMemoryList(localStorage, voiceName) # <<>>
    /\ upload' = [pc |-> "loop", voiceName |-> voiceName,
                  memoryKeys |-> getMemoryList(localStorage, voiceName),
                  successCount |-> 0, errorCount |-> 0,
                  listed |-> getMemoryList(localStorage, voiceName),
                  posted |-> <<>>]
    /\ UNCHANGED connectVars
    /\ call' = NoCall
    /\ sent' = <<>>
    /\ UNCHANGED sessionVars
    /\ UNCHANGED <<localStorage, mounted, voiceName, rawChatHistory, readyState,
                   savedMemories, now, captured, download, ret>>

\* An upload loop that gives up at the first POST that fails.
uploadOneOrStop(loop, memoryHistory, outcome) ==
    IF ~Truthy(memoryHistory) THEN [loop EXCEPT !.memoryKeys = Tail(@)]
    ELSE [loop EXCEPT
             !.memoryKeys = IF outcome = "ok" THEN Tail(@) ELSE <<>>,
             !.successCount = IF outcome = "ok" THEN @ + 1 ELSE @,
             !.errorCount = IF outcome # "ok" THEN @ + 1 ELSE @,
             !.posted = Append(@, <<Head(loop.memoryKeys), outcome>>)]

\* One turn of the upload loop on the slot at the head of memoryKeys: a slot
\* without text is passed over; otherwise its POST answers ok (successCount),
\* answers not ok or throws (errorCount), and the loop goes on.  posted is a
\* history variable: the slots a POST was made for, with what came of it;
\* listed is the array the loop walks.
uploadOne(loop, memoryHistory, outcome) ==
    IF ~Truthy(memoryHistory) THEN [loop EXCEPT !.memoryKeys = Tail(@)]
    ELSE [loop EXCEPT
             !.memoryKeys = Tail(@),
             !.successCount = IF outcome = "ok" THEN @ + 1 ELSE @,
             !.errorCount = IF outcome # "ok" THEN @ + 1 ELSE @,
             !.posted = Append(@, <<Head(loop.memoryKeys), outcome>>)]

\* One turn of the upload loop: the POST of one slot answers ok, answers
\* not ok, or fails.
UploadMemory(outcome) ==
    /\ upload.pc = "loop"
    /\ upload.memoryKeys # <<>>
    /\ upload' = uploadOne(upload,
                           getItem(localStorage,
                                   memoryKey(upload.voiceName,
                                             Head(upload.memoryKeys))),
                           outcome)
    /\ UNCHANGED connectVars
    /\ call' = NoCall
    /\ sent' = <<>>
    /\ UNCHANGED sessionVars
    /\ UNCHANGED <<localStorage, mounted, voiceName, rawChatHistory, readyState,
                   savedMemories, now, captured, download, ret>>

\* The loop is over: the alert reports the two counts.
UploadComplete ==
    /\ upload.pc = "loop"
    /\ upload.memoryKeys = <<>>
    /\ upload' = [pc |-> "idle"]
    /\ UNCHANGED connectVars
    /\ call' = NoCall
    /\ sent' = <<>>
    /\ UNCHANGED sessionVars
    /\ UNCHANGED <<localStorage, mounted, voiceName, rawChatHistory, readyState,
                   savedMemories, now, captured, download, ret>>

\* handleDownloadMemories up to its loop: the listing request fails (the
\* handler returns), or answers with file names.  fetched is a history
\* variable: the files a GET was made for, with what it answered; listed is
\* the array the loop walks.
HandleDownloadMemories(files) ==
    /\ mounted
    /\ download.pc = "idle"
    /\ download' = [pc |-> "loop", voiceName |-> voiceName,
                    memoryFilenames |-> Listing(files),
                    listed |-> Listing(files), fetched |-> <<>>]
    /\ UNCHANGED connectVars
    /\ call' = NoCall
    /\ sent' = <<>>
    /\ UNCHANGED sessionVars
    /\ UNCHANGED <<localStorage, mounted, voiceName, rawChatHistory, readyState,
                   savedMemories, now, captured, upload, ret>>

\* The GET of a file came to a body that response.json() parses.
Fetched(outcome) == outcome # Null /\ ~JSONparse(outcome).threw

\* A download loop that gives up at the first GET that fails.
downloadOneOrStop(loop, storage, outcome) ==
    IF ~endsWithJson(Head(loop.memoryFilenames))
    THEN [loop |-> [loop EXCEPT !.memoryFilenames = Tail(@)],
          storage |-> storage]
    ELSE [loop |-> [loop EXCEPT
                       !.memoryFilenames =
                           IF Fetched(outcome) THEN Tail(@) ELSE <<>>,
                       !.fetched =
                           Append(@, <<Head(loop.memoryFilenames), outcome>>)],
          storage |->
              IF Fetched(outcome)
              THEN setItem(storage,
                           memoryKey(loop.voiceName,
                                     Head(loop.memoryFilenames)[1]),
                           Restringify(outcome))
              ELSE storage]

\* One turn of the download loop on the file at the head of
\* memoryFilenames: a file that is no .json is passed over; the GET of a
\* .json file fails or answers not ok (outcome Null: no body), or answers a
\* body; a body that is JSON is written, re-serialized, to the file's slot;
\* whatever came of it, the loop goes on.
downloadOne(loop, storage, outcome) ==
    IF ~endsWithJson(Head(loop.memoryFilenames))
    THEN [loop |-> [loop EXCEPT !.memoryFilenames = Tail(@)],
          storage |-> storage]
    ELSE [loop |-> [loop EXCEPT
                       !.memoryFilenames = Tail(@),
                       !.fetched =
                           Append(@, <<Head(loop.memoryFilenames), outcome>>)],
          storage |->
              IF Fetched(outcome)
              THEN setItem(storage,
                           memoryKey(loop.voiceName,
                                     Head(loop.memoryFilenames)[1]),
                           Restringify(outcome))
              ELSE storage]

\* One turn of the download loop.
DownloadMemory(outcome) ==
    /\ download.pc = "loop"
    /\ download.memoryFilenames # <<>>
    /\ download' = downloadOne(download, localStorage, outcome).loop
    /\ localStorage' = downloadOne(download, localStorage, outcome).storage
    /\ LET filename == Head(download.memoryFilenames)
           key == memoryKey(download.voiceName, filename[1])
       IN captured' = IF endsWithJson(filename) /\ Fetched(outcome)
                      THEN [k \in DOMAIN captured \ {key} |-> captured[k]]
                      ELSE captured
    /\ UNCHANGED connectVars
    /\ call' = NoCall
    /\ sent' = <<>>
    /\ UNCHANGED sessionVars
    /\ UNCHANGED <<mounted, voiceName, rawChatHistory, readyState,
                   savedMemories, now, upload, ret>>

\* The loop is over: the memory list of the voiceName the handler closed
\* over is stored.
DownloadComplete ==
    /\ download.pc = "loop"
    /\ download.memoryFilenames = <<>>
    /\ download' = [pc |-> "idle"]
    /\ savedMemories' = getMemoryList(localStorage, download.voiceName)
    /\ UNCHANGED connectVars
    /\ call' = NoCall
    /\ sent' = <<>>
    /\ UNCHANGED sessionVars
    /\ UNCHANGED <<localStorage, mounted, voiceName, rawChatHistory, readyState,
                   now, captured, upload, ret>>

NextStore ==
    \/ Mount
    \/ \E v \in VoiceNames : SetVoiceName(v)
    \/ \E next \in {"CONNECTING", "OPEN", "CLOSED"} : ReadyStateChange(next)
    \/ \E delta \in Deltas : OnTranscriptionDelta(delta)
    \/ Tick
    \/ HandleSaveMemory
    \/ \E memory \in 1..MaxTime : HandleSelectMemory(memory)
    \/ HandleClearMemory

\* The component with its socket, fed transcription deltas, and without the
\* remote memory store.
SpecStore == InitStore /\ [][NextStore]_vars

\* ------------------------------------------------------------------------
\* SpecSync: the component while the user neither connects (readyState
\* stays UNINSTANTIATED, no envelope arrives) nor picks another voice, and
\* works on the memories, the remote memory store included.  The loops of
\* handleUploadMemories and handleDownloadMemories give way to every other
\* handler at each await.
\* ------------------------------------------------------------------------

NextSync ==
    \/ Mount
    \/ Tick
    \/ HandleSaveMemory
    \/ \E memory \in 1..MaxTime : HandleSelectMemory(memory)
    \/ HandleClearMemory
    \/ HandleUploadMemories
    \/ \E outcome \in {"ok", "notOk", "throw"} : UploadMemory(outcome)
    \/ UploadComplete
    \/ \E files \in SUBSET RemoteFilenames : HandleDownloadMemories(files)
    \/ \E outcome \in {Null} \cup RemoteBodies : DownloadMemory(outcome)
    \/ DownloadComplete

SpecSync == InitStore /\ [][NextSync]_vars

\* ------------------------------------------------------------------------
\* Snapshots: saveMemory, getMemoryList, loadMemory, clearChatHistory
\* ------------------------------------------------------------------------

IsMemoryKey(key) == Len(key) = 4

MemoryKeys(storage) == {key \in DOMAIN storage : IsMemoryKey(key)}

Descending(list) ==
    \A i \in 1..Len(list) : \A j \in 1..Len(list) : i < j => list[i] > list[j]

\* What loadChatHistory returns when the live key holds this text.
HistoryOf(text) ==
    loadChatHistory(setItem(<<>>, getStorageKey("v1"), text), "v1")

\* C5 as stated: after handleSaveMemory (saveMemory, then getMemoryList) the
\* list holds the timestamp of the call, and holds it first.
C5_NewTimestampFirst ==
    call.fn = "handleSaveMemory" =>
        /\ savedMemories # <<>>
        /\ Head(savedMemories) = call.timestamp

\* C5 amended: after handleSaveMemory the list is the slots' timestamps,
\* newest first; when the live key holds a non-empty text the list holds the
\* timestamp of the call, which is first unless a slot of the voiceName
\* carries a later timestamp; when the live key is absent or empty no
\* snapshot is taken and the list is as it was.
C5_NewTimestampListed ==
    [][call'.fn = "handleSaveMemory" =>
          /\ savedMemories' = getMemoryList(localStorage', voiceName)
          /\ Descending(savedMemories')
          /\ Elements(savedMemories') =
                 {key[4] : key \in {k \in MemoryKeys(localStorage') :
                                       k[2] = voiceName}}
          /\ Truthy(getItem(localStorage, getStorageKey(voiceName))) =>
                 /\ call'.timestamp \in Elements(savedMemories')
                 /\ localStorage'[memoryKey(voiceName, call'.timestamp)] =
                        localStorage[getStorageKey(voiceName)]
                 /\ (\A t \in Elements(savedMemories') : t <= call'.timestamp)
                        => Head(savedMemories') = call'.timestamp
          /\ ~Truthy(getItem(localStorage, getStorageKey(voiceName))) =>
                 /\ localStorage' = localStorage
                 /\ savedMemories' = getMemoryList(localStorage, voiceName)]_vars

\* Two snapshots, the one just taken listed first.
C5_Witness ==
    /\ call.fn = "handleSaveMemory"
    /\ Truthy(getItem(localStorage, getStorageKey(voiceName)))
    /\ Len(savedMemories) = 2
    /\ Head(savedMemories) = call.timestamp

\* C6: for every listed timestamp t of every voiceName v, loadMemory(v, t)
\* followed by loadChatHistory(v) returns the history the live key of v held
\* when the snapshot was captured; and handleSelectMemory leaves that history
\* (as its render leaves it) in rawChatHistory.
C6_RestoreReturnsCaptured ==
    /\ \A v \in VoiceNames :
          \A t \in Elements(getMemoryList(localStorage, v)) :
              /\ memoryKey(v, t) \in DOMAIN captured
              /\ loadChatHistory(loadMemory(localStorage, v, t), v) =
                     HistoryOf(captured[memoryKey(v, t)])
    /\ call.fn = "handleSelectMemory" =>
          rawChatHistory =
              Render(HistoryOf(captured[memoryKey(voiceName, call.memory)]))

\* The older of two snapshots of different content has just been restored,
\* and the history it brings back is not empty.
C6_Witness ==
    /\ call.fn = "handleSelectMemory"
    /\ call.memory = 1
    /\ Len(savedMemories) = 2
    /\ localStorage[memoryKey(voiceName, 1)] # localStorage[memoryKey(voiceName, 2)]
    /\ rawChatHistory # <<>>

\* This step is the turn of the download loop for the file of this slot.
DownloadsSlot(key) ==
    /\ download.pc = "loop"
    /\ download.memoryFilenames # <<>>
    /\ Head(download.memoryFilenames) = <<key[4], ".json">>
    /\ key = memoryKey(download.voiceName, key[4])
    /\ download'.memoryFilenames = Tail(download.memoryFilenames)

\* This step is handleSaveMemory at the timestamp of this slot.
SnapshotsSlot(key) ==
    /\ call' = [fn |-> "handleSaveMemory", timestamp |-> now]
    /\ key = memoryKey(voiceName, now)
    /\ localStorage'[key] = localStorage[getStorageKey(voiceName)]

\* C7 as stated: once a slot exists its content never changes.
C7_SlotNeverChanges ==
    [][\A key \in MemoryKeys(localStorage) :
          /\ key \in DOMAIN localStorage'
          /\ localStorage'[key] = localStorage[key]]_vars

\* C7 amended: a slot is never removed, and its content changes only in a
\* turn of the download loop for the file of its timestamp, or in a snapshot
\* taken at exactly its timestamp.
C7_SlotChangesOnlyByDownloadOrSameTimestamp ==
    [][\A key \in MemoryKeys(localStorage) :
          /\ key \in DOMAIN localStorage'
          /\ localStorage'[key] # localStorage[key] =>
                 DownloadsSlot(key) \/ SnapshotsSlot(key)]_vars

\* A captured slot still holds what was captured after a later snapshot, a
\* download and the restore of another slot.
C7_Witness ==
    /\ call.fn = "handleSelectMemory"
    /\ call.memory = 2
    /\ memoryKey(voiceName, 1) \in DOMAIN captured
    /\ localStorage[memoryKey(voiceName, 1)] = captured[memoryKey(voiceName, 1)]
    /\ localStorage[memoryKey(voiceName, 2)] # localStorage[memoryKey(voiceName, 1)]
    /\ memoryKey(voiceName, 2) \notin DOMAIN captured

\* C8: handleClearMemory (clearChatHistory) removes the live key of the
\* voiceName and handleSelectMemory (loadMemory) writes the slot's text to
\* it; either leaves every other key, present or absent, as it was: every
\* slot of every voiceName and the live key of every other voiceName.
C8_OnlyLiveKeyTouched ==
    [][(call'.fn \in {"handleClearMemory", "handleSelectMemory"}) =>
          /\ \A key \in (DOMAIN localStorage \cup DOMAIN localStorage')
                           \ {getStorageKey(voiceName)} :
                /\ key \in DOMAIN localStorage
                /\ key \in DOMAIN localStorage'
                /\ localStorage'[key] = localStorage[key]
          /\ call'.fn = "handleClearMemory" =>
                getStorageKey(voiceName) \notin DOMAIN localStorage'
          /\ call'.fn = "handleSelectMemory" =>
                localStorage'[getStorageKey(voiceName)] =
                    localStorage[memoryKey(voiceName, call'.memory)]]_vars

\* The live key has just been cleared while both voiceNames have slots and
\* the other voiceName has its live key.
C8_Witness ==
    /\ call.fn = "handleClearMemory"
    /\ getStorageKey(voiceName) \notin DOMAIN localStorage
    /\ \A v \in VoiceNames : getMemoryList(localStorage, v) # <<>>
    /\ \E v \in VoiceNames \ {voiceName} : getStorageKey(v) \in DOMAIN localStorage

\* C9 as stated: what the save effect writes to the live key when readyState
\* changes is the serialization of rawChatHistory.
C9_LiveKeyHoldsRawHistory ==
    [][readyState' # readyState =>
          localStorage'[getStorageKey(voiceName)] =
              JSONstringify(rawChatHistory)]_vars

\* ------------------------------------------------------------------------
\* tools.ts: handleToolCall and the capabilities it dispatches to.  The
\* repository holds two revisions: the one Unmute.tsx calls, with a switch on
\* the name and the news capabilities behind the backend's proxy; and the
\* one of frontend/src/app/tools.ts, with the toolFunctions registry and the
\* news capabilities calling NewsAPI themselves.
\* A JavaScript value is a record here: an object with an error property has
\* an error field, null is JsNull, undefined is Undefined.
\* ------------------------------------------------------------------------

JsNull == [null |-> TRUE]

Undefined == [undefined |-> TRUE]

Returned(value) == [threw |-> FALSE, value |-> value]

Thrown(message) == [threw |-> TRUE, message |-> message]

\* JSON.parse of an arguments string: null, an object of no member or of one
\* string member, or a SyntaxError.
ParseArguments(text) ==
    IF text = <<"null">> THEN Returned(JsNull)
    ELSE IF text = <<"{", "}">> THEN Returned([members |-> {}])
    ELSE IF Len(text) > 2 /\ text[1] = "{" /\ text[2] \in {"city:", "category:"}
    THEN The({IF r.ok /\ r.next = Len(text) /\ text[r.next] = "}"
              THEN Returned([members |-> {<<text[2], r.value>>}])
              ELSE Thrown("SyntaxError") :
                 r \in {ParseString(text, 3)}})
    ELSE Thrown("SyntaxError")

\* What a fetch and the reading of its body come to: the request is
\* rejected; the server answers with an error status and a JSON body, or a
\* body that is not JSON; it answers 200 with a JSON body that reports an
\* error, with a body that is not JSON, or with the data asked for.
ErrorData == [status |-> "error", message |-> "m"]

GoodData ==
    [status |-> "ok", current |-> [temperature_2m |-> 1],
     results |-> <<[latitude |-> 1, longitude |-> 1]>>,
     articles |-> <<[title |-> "t"]>>, sources |-> <<[id |-> "s"]>>]

Responses ==
    {[rejected |-> TRUE],
     [rejected |-> FALSE, ok |-> FALSE, json |-> Returned(ErrorData)],
     [rejected |-> FALSE, ok |-> FALSE, json |-> Thrown("SyntaxError")],
     [rejected |-> FALSE, ok |-> TRUE, json |-> Returned(ErrorData)],
     [rejected |-> FALSE, ok |-> TRUE, json |-> Thrown("SyntaxError")],
     [rejected |-> FALSE, ok |-> TRUE, json |-> Returned(GoodData)]}

\* Destructuring the parameter throws on null; then fetch, response.json()
\* and the read of the property, none of them guarded.
getWeather(args, response) ==
    IF args = JsNull THEN Thrown("TypeError")
    ELSE IF response.rejected THEN Thrown("fetch failed")
    ELSE IF response.json.threw THEN Thrown(response.json.message)
    ELSE IF "current" \in DOMAIN response.json.value
    THEN Returned(response.json.value.current)
    ELSE Returned(Undefined)

getCoordinates(args, response) ==
    IF args = JsNull THEN Thrown("TypeError")
    ELSE IF response.rejected THEN Thrown("fetch failed")
    ELSE IF response.json.threw THEN Thrown(response.json.message)
    ELSE IF "results" \notin DOMAIN response.json.value THEN Thrown("TypeError")
    ELSE IF response.json.value.results = <<>> THEN Returned(Undefined)
    ELSE Returned(response.json.value.results[1])

getNews(args, response) ==
    IF args = JsNull THEN Thrown("TypeError")
    ELSE IF response.rejected THEN Thrown("fetch failed")
    ELSE IF ~response.ok
    THEN Returned([error |-> "News API request failed with status"])
    ELSE IF response.json.threw THEN Thrown(response.json.message)
    ELSE IF response.json.value.status # "ok"
    THEN Returned([error |-> "News API returned an error"])
    ELSE Returned([array |-> response.json.value.articles])

getNewsSources(args, response) ==
    IF args = JsNull THEN Thrown("TypeError")
    ELSE IF response.rejected THEN Thrown("fetch failed")
    ELSE IF ~response.ok
    THEN Returned([error |-> "News API request failed with status"])
    ELSE IF response.json.threw THEN Thrown(response.json.message)
    ELSE IF response.json.value.status # "ok"
    THEN Returned([error |-> "News API returned an error"])
    ELSE Returned([array |-> response.json.value.sources])

\* The news capabilities of frontend/src/app/tools.ts: they read the API key
\* from the environment first.
getNewsDirect(args, response, apiKey) ==
    IF args = JsNull THEN Thrown("TypeError")
    ELSE IF ~apiKey
    THEN Returned([error |-> "News API key is not configured on the client."])
    ELSE getNews(args, response)

getNewsSourcesDirect(args, response, apiKey) ==
    IF args = JsNull THEN Thrown("TypeError")
    ELSE IF ~apiKey
    THEN Returned([error |-> "News API key is not configured on the client."])
    ELSE getNewsSources(args, response)

ToolNames == {"get_weather", "get_coordinates", "get_news", "get_news_sources"}

\* Property names every object literal inherits from Object.prototype.
InheritedNames == {"constructor"}

Arguments(toolCall) ==
    ParseArguments(IF toolCall.arguments = <<>> THEN <<"{", "}">>
                   ELSE toolCall.arguments)

\* What the catch block returns for what the try block threw.
Caught(outcome) ==
    IF outcome.threw THEN [error |-> outcome.message] ELSE outcome.value

\* handleToolCall of the revision Unmute.tsx calls: the value its promise
\* resolves to.  Everything it does is inside its try block.
handleToolCall(toolCall, response) ==
    IF Arguments(toolCall).threw THEN Caught(Arguments(toolCall))
    ELSE Caught(
        CASE toolCall.name = "get_weather" ->
                 getWeather(Arguments(toolCall).value, response)
          [] toolCall.name = "get_coordinates" ->
                 getCoordinates(Arguments(toolCall).value, response)
          [] toolCall.name = "get_news" ->
                 getNews(Arguments(toolCall).value, response)
          [] toolCall.name = "get_news_sources" ->
                 getNewsSources(Arguments(toolCall).value, response)
          [] OTHER -> Returned([error |-> "Unknown function call"]))

\* toolFunctions[call.name]: an own property, a property inherited from
\* Object.prototype (constructor is Object, which returns the object it is
\* given and an empty object for null), or undefined.
toolFunctions(name, args, response, apiKey) ==
    CASE name = "get_weather" -> getWeather(args, response)
      [] name = "get_coordinates" -> getCoordinates(args, response)
      [] name = "get_news" -> getNewsDirect(args, response, apiKey)
      [] name = "get_news_sources" -> getNewsSourcesDirect(args, response, apiKey)
      [] name = "constructor" ->
             Returned(IF args = JsNull THEN [members |-> {}] ELSE args)

\* handleToolCall of frontend/src/app/tools.ts: the lookup in the registry
\* comes first, outside the try block.
handleToolCallByRegistry(toolCall, response, apiKey) ==
    IF toolCall.name \notin ToolNames \cup InheritedNames
    THEN [error |-> "Unknown function call"]
    ELSE IF Arguments(toolCall).threw THEN Caught(Arguments(toolCall))
    ELSE Caught(toolFunctions(toolCall.name, Arguments(toolCall).value,
                              response, apiKey))

\* ------------------------------------------------------------------------
\* SpecTool: one tool call, its name, its arguments string and what the
\* network answers to the capability, handled by either revision.
\* ------------------------------------------------------------------------

CallNames == ToolNames \cup InheritedNames \cup {"get_time"}

ArgumentTexts ==
    {<<>>, <<"{", "}">>, <<"{">>, <<"null">>,
     <<"{", "city:", Quote, "P", Quote, "}">>}

InitTool ==
    /\ localStorage = <<>>
    /\ ComponentInit
    /\ call \in [fn : {"handleToolCall"}, name : CallNames,
                 arguments : ArgumentTexts, response : Responses,
                 apiKey : BOOLEAN]
    /\ ret = NoRet

CallHandleToolCall ==
    /\ ~ret.done
    /\ ret' = [done |-> TRUE, rejected |-> FALSE,
               value |-> handleToolCall(call, call.response)]
    /\ UNCHANGED <<call, localStorage, componentVars>>

CallHandleToolCallByRegistry ==
    /\ ~ret.done
    /\ ret' = [done |-> TRUE, rejected |-> FALSE,
               value |-> handleToolCallByRegistry(call, call.response,
                                                  call.apiKey)]
    /\ UNCHANGED <<call, localStorage, componentVars>>

NextTool ==
    \/ CallHandleToolCall
    \/ CallHandleToolCallByRegistry

SpecTool == InitTool /\ [][NextTool]_vars

HasErrorField(value) == "error" \in DOMAIN value

NotInRegistry == call.name \notin ToolNames

InvalidArguments == Arguments(call).threw

\* The capability called did not get its data: it was given null, the
\* request was rejected, the server answered with an error status or with a
\* body that is not JSON or that reports an error.
CapabilityFails ==
    /\ call.name \in ToolNames
    /\ ~InvalidArguments
    /\ \/ Arguments(call).value = JsNull
       \/ call.response.rejected
       \/ ~call.response.ok
       \/ call.response.json.threw
       \/ call.response.json.value.status # "ok"

\* C10 as stated: the promise of handleToolCall resolves, and when the name
\* is not in the registry, the arguments are not valid JSON or the
\* capability fails, it resolves to an object with an error field.
C10_FailureResolvesToError ==
    ret.done =>
        /\ ~ret.rejected
        /\ (NotInRegistry \/ InvalidArguments \/ CapabilityFails)
               => HasErrorField(ret.value)

\* ------------------------------------------------------------------------
\* SpecSession: the Unmute component over one websocket: the socket opens
\* and closes, inbound messages arrive in lastMessage and the inbound effect
\* handles them, the tool calls of a response.done run and complete.
\* ------------------------------------------------------------------------

\* Inbound messages a session receives at most.
MaxInbound == 3

\* response.done envelopes a session receives at most.
MaxDone == 1

\* lastMessage.data: text JSON.parse rejects, or the text of an envelope.
NotJson == [json |-> FALSE]

TextOf(data) == [json |-> TRUE, data |-> data]

\* JSON.parse(lastMessage.data)
JSONparseData(text) ==
    IF text.json THEN Returned(text.data) ELSE Thrown("SyntaxError")

FunctionCall(id, name, arguments) ==
    [type |-> "function_call", call_id |-> id, name |-> name,
     arguments |-> arguments]

\* The envelopes the server sends: a type the component has no arm for and
\* does not list as ignored, one it lists as ignored, an error and a
\* warning, debug outputs, a transcription delta, a text delta, and a
\* response.done whose output holds two function calls around a message.
Envelopes ==
    {[type |-> "unmute.unheard_of"],
     [type |-> "session.updated"],
     [type |-> "error", error |-> [type |-> "fatal", message |-> "m"]],
     [type |-> "error", error |-> [type |-> "warning", message |-> "w"]],
     [type |-> "unmute.additional_outputs",
      args |-> [debug_dict |-> [stt |-> "d"]]],
     [type |-> "conversation.item.input_audio_transcription.delta",
      delta |-> <<"a">>],
     [type |-> "response.text.delta", delta |-> <<"b">>],
     [type |-> "response.done",
      response |-> [output |->
          <<FunctionCall("A", "get_weather", <<"{", "}">>),
            [type |-> "message"],
            FunctionCall("B", "get_time", <<>>)>>]]}

InboundTexts == {NotJson} \cup {TextOf(e) : e \in Envelopes}

\* The types the else arm lists as ignored (those the model uses).
ignoredTypes == {"session.updated"}

\* What the fetch of a tool call in flight comes to.
ToolResponses ==
    {[rejected |-> TRUE],
     [rejected |-> FALSE, ok |-> FALSE, json |-> Returned(ErrorData)],
     [rejected |-> FALSE, ok |-> TRUE, json |-> Returned(GoodData)]}

\* JSON.stringify(toolResult): the text of the object, and undefined (which
\* a message holds as no content) for undefined.
JSONstringifyResult(toolResult) ==
    IF toolResult = Undefined THEN Null
    ELSE IF "error" \in DOMAIN toolResult
    THEN <<"{", "error:", Quote, toolResult.error, Quote, "}">>
    ELSE IF "temperature_2m" \in DOMAIN toolResult
    THEN <<"{", "temperature_2m:", "1", "}">>
    ELSE <<"{", "}">>

\* A delta arm that puts the new message first.
onDeltaPrepended(prev, role, delta) ==
    <<[role |-> role, content |-> <<" ">> \o delta]>> \o prev

\* The updater a delta arm queues on rawChatHistory.
onDelta(prev, role, delta) ==
    Append(prev, [role |-> role, content |-> <<" ">> \o delta])

\* The message the response.done arm appends for one function call.
assistantToolCall(toolCall) ==
    [role |-> "assistant", content |-> Null,
     tool_calls |-> <<ToolCallOf(toolCall.call_id, toolCall.name,
                                 toolCall.arguments)>>]

\* The items of data.response.output the loop does not skip.
RECURSIVE functionCalls(_)
functionCalls(output) ==
    IF output = <<>> THEN <<>>
    ELSE (IF Head(output).type = "function_call" THEN <<Head(output)>>
          ELSE <<>>)
         \o functionCalls(Tail(output))

\* A response.done loop that leaves after its first function call.
onResponseDoneFirstCall(prev, output) ==
    IF functionCalls(output) = <<>> THEN prev
    ELSE Append(prev, assistantToolCall(Head(functionCalls(output))))

\* The updaters the response.done loop queues on rawChatHistory while it
\* runs: one per function call, before any promise callback can run.
RECURSIVE onResponseDone(_, _)
onResponseDone(prev, output) ==
    IF output = <<>> THEN prev
    ELSE onResponseDone(
             IF Head(output).type = "function_call"
             THEN Append(prev, assistantToolCall(Head(output)))
             ELSE prev,
             Tail(output))

\* The updater the callback of handleToolCall's promise queues.
onToolResult(prev, toolCall, toolResult) ==
    Append(prev, [role |-> "tool", tool_call_id |-> toolCall.call_id,
                  content |-> JSONstringifyResult(toolResult)])

\* What the callback hands to sendMessage.
toolResultEnvelopes(toolCall, toolResult) ==
    <<conversationItemCreate(
          [type |-> "function_call_output", call_id |-> toolCall.call_id,
           output |-> JSONstringifyResult(toolResult)]),
      [type |-> "response.create"]>>

\* An error arm that shows warnings too.
onErrorOfAnyType(data, prevErrors) == Append(prevErrors, data.error.message)

\* The error arm: a warning goes to the console; any other error is
\* appended to the errors state as makeErrorItem(data.error.message).
onError(data, prevErrors) ==
    IF data.error.type = "warning" THEN prevErrors
    ELSE Append(prevErrors, data.error.message)

\* An else arm that reports the types it does not list as ignored.
onUnhandledTypeReported(data, prevErrors) ==
    IF data.type \in ignoredTypes THEN prevErrors
    ELSE Append(prevErrors, "Received unknown message")

\* The else arm: the error list it leaves.  It warns on the console about a
\* type ignoredTypes does not list, and sets no state.
onUnhandledType(data, prevErrors) == prevErrors

\* The inbound effect on a parsed envelope: the states it sets and the tool
\* calls it starts.
onMessage(data, prevHistory, prevErrors, prevDebugDict) ==
    CASE data.type = "unmute.additional_outputs" ->
             [rawChatHistory |-> prevHistory, errors |-> prevErrors,
              debugDict |-> data.args.debug_dict, started |-> <<>>]
      [] data.type = "error" ->
             [rawChatHistory |-> prevHistory,
              errors |-> onError(data, prevErrors),
              debugDict |-> prevDebugDict, started |-> <<>>]
      [] data.type = "conversation.item.input_audio_transcription.delta" ->
             [rawChatHistory |-> onDelta(prevHistory, "user", data.delta),
              errors |-> prevErrors, debugDict |-> prevDebugDict,
              started |-> <<>>]
      [] data.type = "response.text.delta" ->
             [rawChatHistory |-> onDelta(prevHistory, "assistant", data.delta),
              errors |-> prevErrors, debugDict |-> prevDebugDict,
              started |-> <<>>]
      [] data.type = "response.done" ->
             [rawChatHistory |-> onResponseDone(prevHistory,
                                                data.response.output),
              errors |-> prevErrors, debugDict |-> prevDebugDict,
              started |-> functionCalls(data.response.output)]
      [] OTHER ->
             [rawChatHistory |-> prevHistory,
              errors |-> onUnhandledType(data, prevErrors),
              debugDict |-> prevDebugDict, started |-> <<>>]

NoMessage == [null |-> TRUE]

IsResponseDone(text) == text.json /\ text.data.type = "response.done"

\* What localStorage holds when the page loads: nothing, or the consent to
\* recording.
SessionStorages == {<<>>, COOKIE_CONSENT_STORAGE_KEY :> <<"t", "r", "u", "e">>}

InitSession ==
    /\ localStorage \in SessionStorages
    /\ ComponentInit
    /\ call = NoCall
    /\ ret = NoRet

\* The socket delivers a message: the hook sets lastMessage.
Receive(text) ==
    /\ mounted
    /\ readyState = "OPEN"
    /\ Len(arrived) < MaxInbound
    /\ IsResponseDone(text) => Len(SelectSeq(arrived, IsResponseDone)) < MaxDone
    /\ lastMessage' = [data |-> text, handled |-> FALSE]
    /\ arrived' = Append(arrived, text)
    /\ UNCHANGED connectVars
    /\ call' = NoCall
    /\ sent' = <<>>
    /\ UNCHANGED <<localStorage, mounted, voiceName, rawChatHistory, readyState,
                   savedMemories, now, captured, upload, download, inFlight,
                   errors, debugDict, crashed, ret>>

\* The inbound effect runs for lastMessage.  JSON.parse is in no try block:
\* when it throws, the effect throws and React unmounts the tree, which
\* releases the socket.
HandleLastMessage ==
    /\ mounted
    /\ lastMessage # NoMessage
    /\ ~lastMessage.handled
    /\ lastMessage' = [lastMessage EXCEPT !.handled = TRUE]
    /\ IF JSONparseData(lastMessage.data).threw
       THEN /\ crashed' = TRUE
            /\ mounted' = FALSE
            /\ readyState' = "CLOSED"
            /\ UNCHANGED <<rawChatHistory, errors, debugDict, inFlight>>
       ELSE /\ \E r \in {onMessage(JSONparseData(lastMessage.data).value,
                                   rawChatHistory, errors, debugDict)} :
                  /\ rawChatHistory' = Render(r.rawChatHistory)
                  /\ errors' = r.errors
                  /\ debugDict' = r.debugDict
                  /\ inFlight' = inFlight \o r.started
            /\ UNCHANGED <<crashed, mounted, readyState>>
    /\ UNCHANGED connectVars
    /\ call' = NoCall
    /\ sent' = <<>>
    /\ UNCHANGED <<localStorage, voiceName, savedMemories, now, captured,
                   upload, download, arrived, ret>>

\* The promise of a tool call in flight resolves and its callback runs:
\* whatever readyState is, and after an unmount too, when the updater it
\* queues has no state to change.
ToolComplete(response) ==
    \E i \in 1..Len(inFlight) :
       /\ \E toolResult \in {handleToolCall(inFlight[i], response)} :
             /\ rawChatHistory' =
                    IF mounted
                    THEN Render(onToolResult(rawChatHistory, inFlight[i],
                                             toolResult))
                    ELSE rawChatHistory
             /\ sent' = toolResultEnvelopes(inFlight[i], toolResult)
       /\ inFlight' = SubSeq(inFlight, 1, i - 1)
                      \o SubSeq(inFlight, i + 1, Len(inFlight))
       /\ UNCHANGED connectVars
       /\ call' = [fn |-> "toolComplete", toolCall |-> inFlight[i]]
       /\ UNCHANGED <<localStorage, mounted, voiceName, readyState,
                      savedMemories, now, captured, upload, download,
                      lastMessage, errors, debugDict, crashed, arrived, ret>>

NextSession ==
    \/ Mount
    \/ \E next \in {"CONNECTING", "OPEN", "CLOSING", "CLOSED"} :
           ReadyStateChange(next)
    \/ \E text \in InboundTexts : Receive(text)
    \/ HandleLastMessage
    \/ \E response \in ToolResponses : ToolComplete(response)

SpecSession == InitSession /\ [][NextSession]_vars

\* ------------------------------------------------------------------------
\* The session's claims
\* ------------------------------------------------------------------------

\* The call ids of the function calls a response.done envelope carries.
CallIdsOf(text) ==
    {text.data.response.output[i].call_id :
        i \in {j \in 1..Len(text.data.response.output) :
                  text.data.response.output[j].type = "function_call"}}

IsAssistantCallTurn(turn, id) ==
    /\ turn.role = "assistant"
    /\ "tool_calls" \in DOMAIN turn
    /\ \E i \in 1..Len(turn.tool_calls) : turn.tool_calls[i].id = id

IsToolTurn(turn, id) ==
    /\ turn.role = "tool"
    /\ "tool_call_id" \in DOMAIN turn
    /\ turn.tool_call_id = id

\* C11: the assistant Turns of all the function calls of a response.done
\* event are in RawHistory before the tool-result Turn of any of them, in
\* whatever order and however early the tool calls complete.
C11_AssistantTurnsBeforeToolTurns ==
    \A n \in 1..Len(arrived) :
        IsResponseDone(arrived[n]) =>
            \A k \in 1..Len(rawChatHistory) :
                (\E id \in CallIdsOf(arrived[n]) :
                     IsToolTurn(rawChatHistory[k], id)) =>
                    \A id \in CallIdsOf(arrived[n]) :
                        \E j \in 1..(k - 1) :
                            IsAssistantCallTurn(rawChatHistory[j], id)

\* C11's case: the second call of the event has completed while the first
\* is still in flight, and its tool Turn follows both assistant Turns.
C11_Witness ==
    /\ Len(rawChatHistory) = 3
    /\ IsAssistantCallTurn(rawChatHistory[1], "A")
    /\ IsAssistantCallTurn(rawChatHistory[2], "B")
    /\ IsToolTurn(rawChatHistory[3], "B")
    /\ Len(inFlight) = 1
    /\ inFlight[1].call_id = "A"

\* The step in which the inbound effect runs for lastMessage.
HandlesLastMessage ==
    /\ lastMessage # NoMessage
    /\ ~lastMessage.handled
    /\ lastMessage'.handled

\* C12 as stated: an inbound payload that is not valid JSON is swallowed:
\* the step that handles it changes neither the connection state nor
\* RawHistory nor the error list, and the component stays there to handle
\* the envelopes that follow.
C12_MalformedPayloadSwallowed ==
    [][(HandlesLastMessage /\ lastMessage.data = NotJson) =>
           /\ UNCHANGED <<readyState, rawChatHistory, errors>>
           /\ mounted'
           /\ ~crashed']_vars

\* The types an arm of the inbound effect handles.
HandledTypes ==
    {"response.audio.delta", "unmute.additional_outputs", "error",
     "conversation.item.input_audio_transcription.delta",
     "response.text.delta", "response.function_call_arguments.delta",
     "response.done"}

UnhandledEnvelope(text) == text.json /\ text.data.type \notin HandledTypes

\* C13: the step that handles an envelope whose type is none of the handled
\* types changes neither RawHistory nor the error list nor the debug state
\* nor the connection state, starts no tool call, sends nothing and does
\* not fail.
C13_UnhandledTypeIgnored ==
    [][(HandlesLastMessage /\ UnhandledEnvelope(lastMessage.data)) =>
           /\ UNCHANGED <<rawChatHistory, errors, debugDict, readyState,
                          inFlight>>
           /\ sent' = <<>>
           /\ mounted'
           /\ ~crashed']_vars

\* C13's case: an envelope of a type the component has never heard of has
\* been handled in an open session that holds a Turn, an error and debug
\* state.
C13_Witness ==
    /\ mounted
    /\ readyState = "OPEN"
    /\ lastMessage # NoMessage
    /\ lastMessage.handled
    /\ UnhandledEnvelope(lastMessage.data)
    /\ lastMessage.data.data.type \notin ignoredTypes
    /\ Len(rawChatHistory) + Len(errors) = 2
    /\ Len(arrived) = 3

DeltaTypes ==
    {"conversation.item.input_audio_transcription.delta",
     "response.text.delta"}

IsDelta(text) == text.json /\ text.data.type \in DeltaTypes

RoleOfDelta(text) ==
    IF text.data.type = "response.text.delta" THEN "assistant" ELSE "user"

IsTextTurn(turn) ==
    /\ turn.role \in {"user", "assistant"}
    /\ "tool_calls" \notin DOMAIN turn

\* Every message that arrived has had its run of the inbound effect.
AllHandled == lastMessage = NoMessage \/ lastMessage.handled

\* C14 as stated: once the inbound effect has run for what lastMessage
\* holds, RawHistory holds one Turn per delta envelope that arrived, in
\* arrival order, with the envelope's role and text, however the arrivals
\* and the runs of the effect interleave.
C14_OneTurnPerDelta ==
    (mounted /\ AllHandled) =>
        /\ Len(SelectSeq(rawChatHistory, IsTextTurn))
               = Len(SelectSeq(arrived, IsDelta))
        /\ \A i \in 1..Len(SelectSeq(arrived, IsDelta)) :
              /\ SelectSeq(rawChatHistory, IsTextTurn)[i].role
                     = RoleOfDelta(SelectSeq(arrived, IsDelta)[i])
              /\ trimStart(SelectSeq(rawChatHistory, IsTextTurn)[i].content)
                     = SelectSeq(arrived, IsDelta)[i].data.delta

IsPrefix(short, long) ==
    /\ Len(short) <= Len(long)
    /\ SubSeq(long, 1, Len(short)) = short

\* The step in which the callback of a tool call's promise runs.
ToolCompletes == Len(inFlight') < Len(inFlight)

\* C15: RawHistory is append-only during a session: the step that handles
\* an inbound envelope and the step in which a tool call completes leave
\* the RawHistory they found as a prefix of the one they leave, Turn for
\* Turn, the trimming of each render included.
C15_RawHistoryAppendOnly ==
    [][(HandlesLastMessage \/ ToolCompletes) =>
           IsPrefix(rawChatHistory, rawChatHistory')]_vars

\* C15's case: a delta, the two assistant Turns of a response.done and a
\* tool result have been appended one after the other.
C15_Witness ==
    /\ mounted
    /\ call.fn = "toolComplete"
    /\ Len(rawChatHistory) = 4
    /\ rawChatHistory[1].role = "user"
    /\ IsAssistantCallTurn(rawChatHistory[2], "A")
    /\ IsAssistantCallTurn(rawChatHistory[3], "B")
    /\ IsToolTurn(rawChatHistory[4], "A")

\* The Turns of the merged history the replay has an item for: a tool Turn
\* with its toolCallId and content, an assistant Turn with toolCalls, any
\* other Turn with non-empty content.
Replayed(turn) ==
    IF turn.role = "tool"
    THEN "tool_call_id" \in DOMAIN turn /\ Truthy(turn.content)
    ELSE (turn.role = "assistant" /\ "tool_calls" \in DOMAIN turn)
         \/ Truthy(turn.content)

\* The envelope is the conversation.item.create of this Turn.
ReplaysTurn(envelope, turn) ==
    /\ envelope.type = "conversation.item.create"
    /\ IF turn.role = "tool"
       THEN /\ envelope.item.type = "function_call_output"
            /\ envelope.item.call_id = turn.tool_call_id
            /\ envelope.item.output = turn.content
       ELSE /\ envelope.item.type = "message"
            /\ envelope.item.role = turn.role
            /\ IF "tool_calls" \in DOMAIN turn
               THEN envelope.item.tool_calls = turn.tool_calls
               ELSE /\ Len(envelope.item.content) = 1
                    /\ envelope.item.content[1].text = turn.content

BecomesOpen == readyState # "OPEN" /\ readyState' = "OPEN"

C17_NoSendWhileClosed ==
    (mounted /\ readyState \in {"CLOSING", "CLOSED"}) => sent = <<>>

\* C18 as stated: a tool call in flight is not cancelled when the
\* connection leaves Open: whatever the connection state, the step in which
\* it completes appends its tool Turn, with the call's id, to RawHistory.
C18_ToolTurnStillAppended ==
    [][ToolCompletes =>
           /\ Len(rawChatHistory') = Len(rawChatHistory) + 1
           /\ IsPrefix(rawChatHistory, rawChatHistory')
           /\ IsToolTurn(rawChatHistory'[Len(rawChatHistory')],
                         call'.toolCall.call_id)]_vars

\* ------------------------------------------------------------------------
\* The claims on the remote memory store (SpecSync)
\* ------------------------------------------------------------------------

\* The step in which handleUploadMemories leaves its loop and reports.
UploadReports == upload.pc = "loop" /\ upload'.pc = "idle"

\* C19: when the upload of the N listed snapshots reports, a POST has been
\* made for each of them exactly once, in list order, whatever came of the
\* earlier ones; successCount + errorCount = N and errorCount is the number
\* of POSTs that failed.
C19_UploadCountsAddUp ==
    [][UploadReports =>
           /\ Len(upload.posted) = Len(upload.listed)
           /\ \A i \in 1..Len(upload.listed) :
                  upload.posted[i][1] = upload.listed[i]
           /\ upload.successCount + upload.errorCount = Len(upload.listed)
           /\ upload.errorCount =
                  Cardinality({i \in 1..Len(upload.posted) :
                                  upload.posted[i][2] # "ok"})]_vars

\* C19's case: the loop is over for two snapshots, the first POST failed and
\* the second succeeded.
C19_Witness ==
    /\ upload.pc = "loop"
    /\ upload.memoryKeys = <<>>
    /\ Len(upload.listed) = 2
    /\ upload.posted[1][2] # "ok"
    /\ upload.posted[2][2] = "ok"
    /\ upload.successCount = 1
    /\ upload.errorCount = 1

\* The step in which the download loop is done with one file.
DownloadsOne ==
    /\ download.pc = "loop"
    /\ download'.pc = "loop"
    /\ Len(download'.memoryFilenames) < Len(download.memoryFilenames)

\* The step in which handleDownloadMemories leaves its loop.
DownloadReports == download.pc = "loop" /\ download'.pc = "idle"

SlotOf(loop, filename) == memoryKey(loop.voiceName, filename[1])

LastFetched(loop) == loop.fetched[Len(loop.fetched)]

FilenamesOf(fetched) == [i \in 1..Len(fetched) |-> fetched[i][1]]

\* C20: in the pull, the turn of a file whose GET fails, answers not ok or
\* answers no JSON leaves every slot as it was, that file's included, and
\* goes on to the next file; the turn of a .json file fetched successfully
\* leaves its slot holding the history fetched and no other key changed;
\* when the loop ends a GET has been made for every listed .json file, in
\* list order.
C20_FailedFileSkipped ==
    [][/\ DownloadsOne =>
              IF ~endsWithJson(Head(download.memoryFilenames))
              THEN localStorage' = localStorage
              ELSE IF ~Fetched(LastFetched(download')[2])
              THEN /\ localStorage' = localStorage
                   /\ download'.memoryFilenames
                          = Tail(download.memoryFilenames)
              ELSE /\ JSONparse(
                          getItem(localStorage',
                                  SlotOf(download,
                                         Head(download.memoryFilenames)))
                      ).value
                          = JSONparse(LastFetched(download')[2]).value
                   /\ \A key \in (DOMAIN localStorage \cup DOMAIN localStorage')
                            \ {SlotOf(download,
                                      Head(download.memoryFilenames))} :
                          getItem(localStorage', key)
                              = getItem(localStorage, key)
       /\ DownloadReports =>
              FilenamesOf(download.fetched)
                  = SelectSeq(download.listed, endsWithJson)]_vars

\* C20's case: of two listed snapshots, the GET of the first failed and its
\* slot is still absent; the second was fetched and its slot holds it.
C20_Witness ==
    /\ download.pc = "loop"
    /\ download.memoryFilenames = <<>>
    /\ Len(download.fetched) = 2
    /\ ~Fetched(download.fetched[1][2])
    /\ Fetched(download.fetched[2][2])
    /\ getItem(localStorage, SlotOf(download, download.fetched[1][1])) = Null
    /\ getItem(localStorage, SlotOf(download, download.fetched[2][1]))
           = Restringify(download.fetched[2][2])

\* ------------------------------------------------------------------------
\* The session's claims, continued
\* ------------------------------------------------------------------------

\* The two envelopes are the function-output item of this call and then the
\* request to go on generating.
FollowUpOf(envelopes, id) ==
    /\ Len(envelopes) = 2
    /\ envelopes[1].type = "conversation.item.create"
    /\ envelopes[1].item.type = "function_call_output"
    /\ envelopes[1].item.call_id = id
    /\ envelopes[2].type = "response.create"

\* C21 as stated: a tool completion is one uninterrupted step that appends
\* the call's tool Turn to RawHistory, and nothing else, and sends the
\* call's function_call_output item and then response.create, and nothing
\* else.
C21_AppendAndNotifyAtomic ==
    [][ToolCompletes =>
           /\ FollowUpOf(sent', call'.toolCall.call_id)
           /\ Len(rawChatHistory') = Len(rawChatHistory) + 1
           /\ SubSeq(rawChatHistory', 1, Len(rawChatHistory)) = rawChatHistory
           /\ IsToolTurn(rawChatHistory'[Len(rawChatHistory')],
                         sent'[1].item.call_id)]_vars

IsFunctionCallEntry(entry) == entry.type = "function_call"

\* The Turns a step has appended to RawHistory.
Appended == SubSeq(rawChatHistory', Len(rawChatHistory) + 1,
                   Len(rawChatHistory'))

\* The function_call entries of the response.done envelope lastMessage holds.
EntriesOfLastMessage ==
    SelectSeq(lastMessage.data.data.response.output, IsFunctionCallEntry)

\* C22 as stated: the step that handles a response.done appends, for each
\* output entry of type function_call and for no other entry, one assistant
\* Turn with content null and a single ToolCall whose id is the entry's
\* call_id, and dispatches these entries and no other; the step in which a
\* dispatch completes appends exactly one tool Turn, with that call_id.
C22_OneAssistantAndOneToolTurnPerCall ==
    [][/\ (HandlesLastMessage /\ IsResponseDone(lastMessage.data)) =>
              /\ IsPrefix(rawChatHistory, rawChatHistory')
              /\ Len(Appended) = Len(EntriesOfLastMessage)
              /\ \A i \in 1..Len(Appended) :
                    /\ Appended[i].role = "assistant"
                    /\ Appended[i].content = Null
                    /\ Len(Appended[i].tool_calls) = 1
                    /\ Appended[i].tool_calls[1].id
                           = EntriesOfLastMessage[i].call_id
              /\ inFlight' = inFlight \o EntriesOfLastMessage
       /\ ToolCompletes =>
              /\ IsPrefix(rawChatHistory, rawChatHistory')
              /\ Len(Appended) = 1
              /\ IsToolTurn(Appended[1], call'.toolCall.call_id)]_vars

\* The Turns the replay translates to nothing: a tool Turn without
\* toolCallId or content, and any Turn that is neither a tool Turn nor an
\* assistant Turn with toolCalls and has no content.
SendsNothing(turn) ==
    IF turn.role = "tool"
    THEN "tool_call_id" \notin DOMAIN turn \/ ~Truthy(turn.content)
    ELSE /\ ~(turn.role = "assistant" /\ "tool_calls" \in DOMAIN turn)
         /\ ~Truthy(turn.content)

SendsSomething(turn) == ~SendsNothing(turn)

\* The item a Turn is translated to.
TranslationOf(turn) ==
    IF turn.role = "tool"
    THEN [type |-> "function_call_output", call_id |-> turn.tool_call_id,
          output |-> turn.content]
    ELSE IF "tool_calls" \in DOMAIN turn
    THEN [type |-> "message", role |-> "assistant", content |-> turn.content,
          tool_calls |-> turn.tool_calls]
    ELSE [type |-> "message", role |-> turn.role,
          content |-> <<[type |-> "input_text", text |-> turn.content]>>]

\* What has just been sent is a session.update and its replay.
JustReplayed == sent # <<>> /\ sent[1].type = "session.update"

IsErrorEnvelope(text) == text.json /\ text.data.type = "error"

\* C25: the step that handles an error envelope leaves the error list as it
\* was when error.type is "warning", and otherwise appends exactly one item,
\* with the envelope's message; in both cases RawHistory and the connection
\* state are unchanged.
C25_WarningsNotShown ==
    [][(HandlesLastMessage /\ IsErrorEnvelope(lastMessage.data)) =>
           /\ IF lastMessage.data.data.error.type = "warning"
              THEN errors' = errors
              ELSE /\ Len(errors') = Len(errors) + 1
                   /\ SubSeq(errors', 1, Len(errors)) = errors
                   /\ errors'[Len(errors')]
                          = lastMessage.data.data.error.message
           /\ UNCHANGED <<rawChatHistory, readyState>>]_vars

\* C25's case: a warning has been handled after an error of another type,
\* and the error list holds the one item of that error.
C25_Witness ==
    /\ mounted
    /\ lastMessage # NoMessage
    /\ lastMessage.handled
    /\ IsErrorEnvelope(lastMessage.data)
    /\ lastMessage.data.data.error.type = "warning"
    /\ errors = <<"m">>
    /\ Len(arrived) = 2

\* ------------------------------------------------------------------------
\* compressChatHistory and its caller's history (SpecCompress)
\* ------------------------------------------------------------------------

\* C29 as stated: compressChatHistory does not modify its input: after the
\* call every Turn of the input history has the content it had before,
\* leading whitespace included.
C29_InputNotModified ==
    (call.fn = "compressChatHistory" /\ ret.done) =>
        /\ Len(ret.chatHistory) = Len(call.chatHistory)
        /\ \A i \in 1..Len(call.chatHistory) :
               ret.chatHistory[i].content = call.chatHistory[i].content

IsToolResult(turn) == turn.role = "tool"

\* C30 as stated: each tool Turn of the compressed history carries the
\* content and the toolCallId of exactly one tool result of the input, and
\* the compressed history has as many tool Turns as the input has tool
\* results.
C30_ToolResultsNotFolded ==
    (call.fn = "compressChatHistory" /\ ret.done) =>
        /\ Len(SelectSeq(ret.compressed, IsToolResult))
               = Len(SelectSeq(call.chatHistory, IsToolResult))
        /\ \A i \in 1..Len(SelectSeq(ret.compressed, IsToolResult)) :
              /\ SelectSeq(ret.compressed, IsToolResult)[i].tool_call_id
                     = SelectSeq(call.chatHistory, IsToolResult)[i].tool_call_id
              /\ SelectSeq(ret.compressed, IsToolResult)[i].content
                     = SelectSeq(call.chatHistory, IsToolResult)[i].content

\* ------------------------------------------------------------------------
\* The scope of the history store (SpecStore)
\* ------------------------------------------------------------------------

\* The step in which a voiceName is selected: the first mount, or a switch.
SelectsVoiceName == (~mounted /\ mounted') \/ voiceName' # voiceName

\* C28 as stated: selecting a voiceName only reads the persisted live entry
\* of the selected voiceName: the step leaves that entry as it found it.
C28_SelectingOnlyReads ==
    [][SelectsVoiceName =>
           getItem(localStorage', getStorageKey(voiceName'))
               = getItem(localStorage, getStorageKey(voiceName'))]_vars

\* ------------------------------------------------------------------------
\* SpecConnect: the component with its connect button, its configurator and
\* its socket, fed transcription deltas
\* ------------------------------------------------------------------------

\* useWebSocket(webSocketUrl, options, shouldConnect): the socket starts to
\* connect only for a session that wants a connection.
SocketChange(next) ==
    /\ next = "CONNECTING" => shouldConnect
    /\ ReadyStateChange(next)

NextConnect ==
    \/ Mount
    \/ \E config \in UnmuteConfigs : SetUnmuteConfig(config)
    \/ \E next \in {"CONNECTING", "OPEN", "CLOSING", "CLOSED"} :
           SocketChange(next)
    \/ OnConnectButtonPress
    \/ \E mediaStream \in BOOLEAN : OnMicrophoneAccess(mediaStream)
    \/ \E delta \in Deltas : OnTranscriptionDelta(delta)

SpecConnect == InitStore /\ [][NextConnect]_vars

\* ------------------------------------------------------------------------
\* The connection's claims
\* ------------------------------------------------------------------------

IsSessionUpdate(envelope) == envelope.type = "session.update"

IsItemCreate(envelope) == envelope.type = "conversation.item.create"

\* C27: a step sends session.update exactly once when it makes the
\* connection Open, and a step that leaves the connection Open, a change of
\* the configuration included, sends neither session.update nor replay
\* items.
C27_SentOncePerOpen ==
    [][/\ BecomesOpen => Len(SelectSeq(sent', IsSessionUpdate)) = 1
       /\ (readyState = "OPEN" /\ readyState' = "OPEN")
              => /\ SelectSeq(sent', IsSessionUpdate) = <<>>
                 /\ SelectSeq(sent', IsItemCreate) = <<>>]_vars

\* This step is a setConfig with another voice or other instructions.
ChangesConfig == unmuteConfig' # unmuteConfig

\* C26: a change of the voice or of the instructions leaves the session not
\* wanting a connection and the audio shut down, and leaves RawHistory as
\* it was.
C26_ConfigChangeDisconnects ==
    [][ChangesConfig => /\ ~shouldConnect'
                        /\ ~audioRunning'
                        /\ rawChatHistory' = rawChatHistory]_vars

\* The configuration has just been changed on an open connection of a
\* session with a history.
C26_Witness ==
    /\ call = [fn |-> "setConfig"]
    /\ unmuteConfig # DEFAULT_UNMUTE_CONFIG
    /\ readyState = "OPEN"
    /\ rawChatHistory # <<>>
    /\ ~shouldConnect
    /\ ~audioRunning

\* This step takes the connection to Closing or to Closed.
BecomesClosingOrClosed ==
    /\ readyState' \in {"CLOSING", "CLOSED"}
    /\ readyState' # readyState

\* This step is the connect button pressed in a session that wants a
\* connection.
LocalDisconnect == call' = [fn |-> "onConnectButtonPress", disconnects |-> TRUE]

\* This step is the connect button's handler setting the audio up for a
\* session that asked to connect.
ConnectsAgain == call' = [fn |-> "onConnectButtonPress", resumes |-> TRUE]

\* C24 as stated: in no reachable state is the connection Closed while the
\* audio runs.
C24_NoAudioWhileClosed == readyState = "CLOSED" => ~audioRunning

\* C24: a step that takes the connection to Closing or Closed, and a local
\* disconnect, leave the session not wanting a connection and the audio
\* shut down; and while the connection is Closing or Closed the audio does
\* not run again unless the user asks to connect again.
C24_ClosingStopsSession ==
    [][/\ (BecomesClosingOrClosed \/ LocalDisconnect)
              => ~shouldConnect' /\ ~audioRunning'
       /\ (readyState' \in {"CLOSING", "CLOSED"}
              /\ audioRunning' /\ ~audioRunning) => ConnectsAgain]_vars

\* The connection of a session that has a history has just gone to Closing
\* or Closed and the session is stopped.
C24_Witness ==
    /\ readyState \in {"CLOSING", "CLOSED"}
    /\ rawChatHistory # <<>>
    /\ call = NoCall
    /\ connectPress = "idle"
    /\ ~shouldConnect
    /\ ~audioRunning

\* ------------------------------------------------------------------------
\* SpecInFlight: the session while the user clears the history, saves and
\* restores snapshots and picks another voiceName with tool calls in flight
\* ------------------------------------------------------------------------

\* The inbound messages of SpecInFlight: the response.done events.
DoneTexts == {text \in InboundTexts : IsResponseDone(text)}

\* The fetches of SpecInFlight: they are rejected.
RejectedResponses == {response \in ToolResponses : response.rejected}

\* The page loads with an empty localStorage.
InitInFlight ==
    /\ localStorage = <<>>
    /\ ComponentInit
    /\ call = NoCall
    /\ ret = NoRet

NextInFlight ==
    \/ Mount
    \/ \E next \in {"CONNECTING", "OPEN"} : ReadyStateChange(next)
    \/ \E text \in DoneTexts : Receive(text)
    \/ HandleLastMessage
    \/ \E response \in RejectedResponses : ToolComplete(response)
    \/ HandleClearMemory
    \/ HandleSaveMemory
    \/ \E memory \in 1..MaxTime : HandleSelectMemory(memory)
    \/ \E v \in VoiceNames : SetVoiceName(v)

SpecInFlight == InitInFlight /\ [][NextInFlight]_vars

\* C31: in every reachable state, each tool Turn of RawHistory has before
\* it in RawHistory an assistant Turn whose toolCalls hold a ToolCall with
\* the tool Turn's toolCallId.
C31_ToolTurnAfterItsAssistantTurn ==
    \A k \in 1..Len(rawChatHistory) :
        rawChatHistory[k].role = "tool" =>
            \E j \in 1..(k - 1) :
                IsAssistantCallTurn(rawChatHistory[j],
                                    rawChatHistory[k].tool_call_id)

====
